---- MODULE Spec2Model ----
(***************************************************************************)
(* SnapDBJS: a model of the two key-value stores of the repository.        *)
(*                                                                         *)
(*  - SimpleStorage (src/src/simple-storage/SimpleStorage.ts), the store   *)
(*    behind SimpleSnapDB: a data map and a separate ttlData map.          *)
(*  - StorageEngine (src/unnamed/part_005) with its Memtable, WAL and      *)
(*    SSTables (src/src/worker/storage), the store behind the worker.      *)
(*                                                                         *)
(* Time is the value Date.now() returns, in milliseconds.  Keys and        *)
(* patterns are character sequences so that the glob translation and the   *)
(* regular-expression test can be computed as the code computes them.      *)
(***************************************************************************)
EXTENDS Integers, Sequences, FiniteSets, TLC

VARIABLES
    now,        \* Date.now()
    sData,      \* SimpleStorage.data    : key -> StorageEntry
    sTtl,       \* SimpleStorage.ttlData : key -> absolute expiry time
    memtable,   \* StorageEngine.memtable: [data: key -> StorageEntry, sizeBytes]
    wal,        \* StorageEngine.wal, its entries array
    sstables,   \* StorageEngine.sstables: level -> SSTables, oldest first
    compactionStats, \* StorageEngine.compactionStats
    scheduled,  \* triggerCompaction callbacks handed to setImmediate, not yet run
    compactionInProgress, \* StorageEngine.compactionInProgress
    matcher,    \* the pattern and the key handed to the pattern matchers
    calls,      \* SimpleStorage, SimpleSnapDB: the calls suspended at their await
    flushed,    \* history: FLUSHALL was the last command that wrote
    client,     \* SnapDB: isReady, pendingRequests, the promises of sendCommand
    port,       \* the messages in flight between SnapDB and its worker
    worker,     \* the worker thread: its life and the handler it is running
    bloomFilter,\* a BloomFilter: its size, the bits set, the keys added
    snapshots,  \* SnapshotPlugin.snapshots: name -> Snapshot
    file,       \* the file PersistencePlugin writes: what save() stored last
    contract    \* history: what the commands issued so far made of each key

vars == <<now, sData, sTtl, memtable, wal, sstables, compactionStats, scheduled,
          compactionInProgress, matcher, calls, flushed, client, port, worker,
          bloomFilter, snapshots, file, contract>>
simpleVars == <<sData, sTtl>>
engineVars == <<memtable, wal, sstables, compactionStats, scheduled, compactionInProgress>>
linkVars == <<client, port, worker>>
pluginVars == <<bloomFilter, snapshots, file>>
auxVars == <<matcher, calls, flushed, client, port, worker, pluginVars>>

----------------------------------------------------------------------------
(* Bounds of the model *)

MaxTick == 3        \* the clock is observed every half second, 0..MaxTick times
MaxVersion == 2     \* a key is overwritten until its version reaches this
MaxWal == 2          \* mutating commands between two memtable flushes
MaxRuns == 1         \* memtable flushes
MaxList == 2         \* elements of an MGET or MSET argument
MaxCalls == 3        \* incr/decr calls started without awaiting one another
MaxCompactions == 1  \* compactions recorded or waiting in setImmediate
MaxFlushes == 4      \* level-0 tables while FLUSHALL is examined
MaxCommands == 4     \* commands issued through the worker-backed client
MaxBatch == 3        \* mutating commands between two flushes while merges are examined
MaxInputs == 2       \* level-0 tables handed to CompactionEngine.compact
MaxMerges == 3       \* merges CompactionEngine records

Instants == { 500 * i : i \in 0..MaxTick }

(* Inputs *)
(* JavaScript values: null, undefined, a number, or a string given as its *)
(* characters                                                              *)
JsValue(type, num, str) == [type |-> type, num |-> num, str |-> str]
Null == JsValue("null", 0, <<>>)
Undefined == JsValue("undefined", 0, <<>>)
Num(n) == JsValue("number", n, <<>>)
Str(s) == JsValue("string", 0, s)

Keys == { <<"a">>, <<"a", "b">> }
Values == { Str(<<"v", "1">>), Str(<<"v", "2">>) }
NoTtl == 0                      \* ttl omitted; `ttl ? .. : ..` treats 0 alike
TtlArgs == { 1000, 1500 }         \* ttl arguments in milliseconds
NonPositiveTtls == { -1000, -500 } \* ttl arguments that are supplied and below 0
Patterns == { <<>>, <<"a">>, <<"a", "*">> }

(* MGET and MSET arguments *)
ListsOf(items) == UNION { [1..n -> items] : n \in 0..MaxList }
KeyLists == ListsOf(Keys)
BatchEntries == { [key |-> k, value |-> Str(<<"v", "1">>), ttl |-> ttl] :
                    k \in Keys, ttl \in {NoTtl, 1000} }
EntryLists == ListsOf(BatchEntries) \ {<<>>}


----------------------------------------------------------------------------
(* JavaScript Map operations *)

EmptyMap == [x \in {} |-> Null]

(* no BloomFilter constructed, no file written *)
NoFilter == [size |-> 0, bits |-> {}, added |-> {}]
NoFile == [written |-> FALSE]
MapHas(m, k) == k \in DOMAIN m
MapSet(m, k, e) == [x \in (DOMAIN m) \cup {k} |-> IF x = k THEN e ELSE m[x]]
MapDelete(m, k) == [x \in (DOMAIN m) \ {k} |-> m[x]]

(* Math.ceil(r / 1000) for any integer r *)
CeilSeconds(r) == (r + 999) \div 1000

----------------------------------------------------------------------------
(* Glob patterns and the regular expressions built from them *)

(* String.prototype.replace(/c/g, by): every occurrence of character c *)
RECURSIVE ReplaceAll(_, _, _)
ReplaceAll(str, c, by) ==
    IF str = <<>> THEN <<>>
    ELSE (IF Head(str) = c THEN by ELSE <<Head(str)>>) \o ReplaceAll(Tail(str), c, by)

(* The characters of the class [.+^${}()|[\]\\] *)
RegexSpecial == { ".", "+", "^", "$", "{", "}", "(", ")", "|", "[", "]", "\\" }

(* replace(/[.+^${}()|[\]\\]/g, '\\$&') *)
RECURSIVE EscapeSpecial(_)
EscapeSpecial(str) ==
    IF str = <<>> THEN <<>>
    ELSE (IF Head(str) \in RegexSpecial THEN <<"\\", Head(str)>> ELSE <<Head(str)>>)
         \o EscapeSpecial(Tail(str))

(* A regular-expression source as a sequence of atoms, each with an       *)
(* optional quantifier: "\c" is the literal c, "." any character, c itself *)
(* otherwise; "*" repeats the atom, "?" makes it optional, and a "?" after *)
(* a quantifier only makes it lazy, which does not change what test()      *)
(* answers.                                                                *)
RECURSIVE RegexAtoms(_)
RegexAtoms(re) ==
    IF re = <<>> THEN <<>>
    ELSE LET esc   == Head(re) = "\\" /\ Len(re) >= 2
             used  == IF esc THEN 2 ELSE 1
             ch    == IF esc THEN re[2] ELSE Head(re)
             any   == ~esc /\ Head(re) = "."
             star  == Len(re) > used /\ re[used + 1] = "*"
             opt   == Len(re) > used /\ re[used + 1] = "?"
             quant == IF star \/ opt THEN 1 ELSE 0
             lazy  == IF quant = 1 /\ Len(re) > used + 1 /\ re[used + 2] = "?" THEN 1 ELSE 0
             rest  == SubSeq(re, used + quant + lazy + 1, Len(re))
         IN  <<[any |-> any, ch |-> ch, star |-> star, opt |-> opt]>> \o RegexAtoms(rest)

(* new RegExp(re) throws "nothing to repeat" when a quantifier has no atom *)
RECURSIVE RegexValid(_)
RegexValid(re) ==
    IF re = <<>> THEN TRUE
    ELSE LET esc   == Head(re) = "\\" /\ Len(re) >= 2
             used  == IF esc THEN 2 ELSE 1
             quant == IF Len(re) > used /\ re[used + 1] \in {"*", "?"} THEN 1 ELSE 0
             lazy  == IF quant = 1 /\ Len(re) > used + 1 /\ re[used + 2] = "?" THEN 1 ELSE 0
         IN  /\ esc \/ Head(re) \notin {"*", "?"}
             /\ RegexValid(SubSeq(re, used + quant + lazy + 1, Len(re)))

AtomAccepts(atom, c) == atom.any \/ atom.ch = c

(* the atoms match the whole of str *)
RECURSIVE AtomsMatch(_, _)
AtomsMatch(atoms, str) ==
    IF atoms = <<>> THEN str = <<>>
    ELSE IF Head(atoms).star
         THEN \/ AtomsMatch(Tail(atoms), str)
              \/ /\ str # <<>>
                 /\ AtomAccepts(Head(atoms), Head(str))
                 /\ AtomsMatch(atoms, Tail(str))
         ELSE IF Head(atoms).opt
         THEN \/ AtomsMatch(Tail(atoms), str)
              \/ /\ str # <<>>
                 /\ AtomAccepts(Head(atoms), Head(str))
                 /\ AtomsMatch(Tail(atoms), Tail(str))
         ELSE /\ str # <<>>
              /\ AtomAccepts(Head(atoms), Head(str))
              /\ AtomsMatch(Tail(atoms), Tail(str))

(* RegExp.prototype.test: a leading ^ and a trailing $ anchor the match, *)
(* otherwise any substring may match.                                     *)
RegexTest(re, str) ==
    LET atStart == re # <<>> /\ Head(re) = "^"
        noHead  == IF atStart THEN Tail(re) ELSE re
        atEnd   == noHead # <<>> /\ noHead[Len(noHead)] = "$"
        body    == IF atEnd THEN SubSeq(noHead, 1, Len(noHead) - 1) ELSE noHead
        atoms   == RegexAtoms(body)
    IN  \E i \in 1..(Len(str) + 1) : \E j \in (i - 1)..Len(str) :
            /\ atStart => i = 1
            /\ atEnd => j = Len(str)
            /\ AtomsMatch(atoms, SubSeq(str, i, j))

(* Memtable.patternToRegex / SSTable.patternToRegex *)
patternToRegex(pattern) ==
    <<"^">> \o ReplaceAll(ReplaceAll(EscapeSpecial(pattern), "*", <<".", "*">>), "?", <<".">>)
            \o <<"$">>

(* SimpleStorage.keys: new RegExp(pattern.replace(/\*/g, '.*').replace(/\?/g, '.')) *)
simplePatternRegex(pattern) ==
    ReplaceAll(ReplaceAll(pattern, "*", <<".", "*">>), "?", <<".">>)

(* StorageEngine.keys: new RegExp(pattern.replace(/\*/g, '.*')) *)
enginePatternRegex(pattern) ==
    ReplaceAll(pattern, "*", <<".", "*">>)

(* `pattern ? regex : null` followed by `!regex || regex.test(keyStr)` *)
SimpleKeyMatches(pattern, k) ==
    pattern = <<>> \/ RegexTest(simplePatternRegex(pattern), k)

MemtableKeyMatches(pattern, k) ==
    pattern = <<>> \/ RegexTest(patternToRegex(pattern), k)

EngineKeyMatches(pattern, k) ==
    pattern = <<>> \/ RegexTest(enginePatternRegex(pattern), k)

----------------------------------------------------------------------------
(* SimpleStorage *)

(* the StorageEntry that set() builds at time t over the map `old` *)
NewEntry(old, k, v, ttl, t) ==
    [ key       |-> k,
      value     |-> v,
      timestamp |-> t,
      ttl       |-> IF ttl # NoTtl THEN t + ttl ELSE NoTtl,
      version   |-> (IF MapHas(old, k) THEN old[k].version ELSE 0) + 1 ]

(* `this.ttlData.has(keyStr)` and `Date.now() > expiry` *)
SimpleExpired(k) == MapHas(sTtl, k) /\ now > sTtl[k]

(* data and ttlData after `data.delete(keyStr); ttlData.delete(keyStr)` *)
SimplePurge(dead) ==
    /\ sData' = [k \in (DOMAIN sData) \ dead |-> sData[k]]
    /\ sTtl' = [k \in (DOMAIN sTtl) \ dead |-> sTtl[k]]

SimpleStorage_set(k, v, ttl) ==
    /\ NewEntry(sData, k, v, ttl, now).version <= MaxVersion
    /\ sData' = MapSet(sData, k, NewEntry(sData, k, v, ttl, now))
    /\ sTtl' = IF ttl # NoTtl THEN MapSet(sTtl, k, now + ttl) ELSE sTtl

(* what get(key) returns *)
SimpleStorage_getResult(k) ==
    IF SimpleExpired(k) THEN Null
    ELSE IF MapHas(sData, k) THEN sData[k].value ELSE Null

(* what get(key) does to the maps *)
SimpleStorage_get(k) ==
    IF SimpleExpired(k) THEN SimplePurge({k}) ELSE UNCHANGED simpleVars

SimpleStorage_delResult(k) == MapHas(sData, k)

SimpleStorage_del(k) ==
    /\ sTtl' = MapDelete(sTtl, k)
    /\ sData' = MapDelete(sData, k)

SimpleStorage_existsResult(k) ==
    IF SimpleExpired(k) THEN FALSE ELSE MapHas(sData, k)

SimpleStorage_exists(k) ==
    IF SimpleExpired(k) THEN SimplePurge({k}) ELSE UNCHANGED simpleVars

SimpleStorage_expireResult(k) == MapHas(sData, k)

SimpleStorage_expire(k, ttl) ==
    IF ~MapHas(sData, k)
    THEN UNCHANGED simpleVars
    ELSE /\ sTtl' = MapSet(sTtl, k, now + ttl)
         /\ UNCHANGED sData

SimpleStorage_ttlResult(k) ==
    IF ~MapHas(sData, k) THEN -2
    ELSE IF ~MapHas(sTtl, k) THEN -1
    ELSE IF sTtl[k] - now <= 0 THEN -2
    ELSE CeilSeconds(sTtl[k] - now)

SimpleStorage_ttl(k) ==
    IF MapHas(sData, k) /\ MapHas(sTtl, k) /\ sTtl[k] - now <= 0
    THEN SimplePurge({k})
    ELSE UNCHANGED simpleVars

(* keys(): the keys pushed to the result, as a set (the iteration is over *)
(* a Map, so no key is pushed twice)                                       *)
SimpleStorage_keysResult(pattern) ==
    { k \in DOMAIN sData : ~SimpleExpired(k) /\ SimpleKeyMatches(pattern, k) }

(* keys(): expired entries met by the iteration are removed from both maps *)
SimpleStorage_keys(pattern) ==
    SimplePurge({ k \in DOMAIN sData : SimpleExpired(k) })

(* the setInterval callback of startPeriodicCleanup *)
SimpleStorage_cleanupExpiredEntries ==
    SimplePurge({ k \in DOMAIN sData : SimpleExpired(k) })

(* info(): expired entries are removed, then totalEntries = data.size *)
SimpleStorage_infoTotalEntries ==
    Cardinality({ k \in DOMAIN sData : ~SimpleExpired(k) })

SimpleStorage_info ==
    SimplePurge({ k \in DOMAIN sData : SimpleExpired(k) })

(* mget(): get() for each key in order *)
SimpleStorage_mgetResult(keys) ==
    [i \in 1..Len(keys) |-> SimpleStorage_getResult(keys[i])]

SimpleStorage_mget(keys) ==
    SimplePurge({ k \in DOMAIN sData : SimpleExpired(k) /\ \E i \in 1..Len(keys) : keys[i] = k })

(* parseInt(String(value)) for a string of digits with an optional sign: *)
(* the leading digits are read, NaN when there is none                    *)
DigitValue(c) ==
    CASE c = "0" -> 0 [] c = "1" -> 1 [] c = "2" -> 2 [] c = "3" -> 3 [] c = "4" -> 4
      [] c = "5" -> 5 [] c = "6" -> 6 [] c = "7" -> 7 [] c = "8" -> 8 [] c = "9" -> 9
      [] OTHER -> -1

RECURSIVE ParseDigits(_, _, _)
ParseDigits(s, acc, seen) ==
    IF s = <<>> \/ DigitValue(Head(s)) < 0
    THEN [nan |-> ~seen, n |-> acc]
    ELSE ParseDigits(Tail(s), acc * 10 + DigitValue(Head(s)), TRUE)

parseInt(s) ==
    IF s # <<>> /\ Head(s) \in {"-", "+"}
    THEN LET r == ParseDigits(Tail(s), 0, FALSE)
         IN  [nan |-> r.nan, n |-> IF Head(s) = "-" THEN 0 - r.n ELSE r.n]
    ELSE ParseDigits(s, 0, FALSE)

(* incr()/decr(): the number read from the value get() returned *)
SimpleStorage_numValue(currentValue) ==
    IF currentValue.type = "number" THEN currentValue.num
    ELSE IF currentValue # Null
         THEN (IF parseInt(currentValue.str).nan THEN 0 ELSE parseInt(currentValue.str).n)
         ELSE 0

(* incr() (by = 1) and decr() (by = -1): what the call returns *)
SimpleStorage_incrResult(k, by) ==
    SimpleStorage_numValue(SimpleStorage_getResult(k)) + by

(* incr()/decr() run alone: get(key), then set(key, newValue) without ttl *)
SimpleStorage_incr(k, by) ==
    LET dead  == IF SimpleExpired(k) THEN {k} ELSE {}
        data  == [x \in (DOMAIN sData) \ dead |-> sData[x]]
        entry == NewEntry(data, k, Num(SimpleStorage_incrResult(k, by)), NoTtl, now)
    IN  /\ entry.version <= MaxVersion
        /\ sData' = MapSet(data, k, entry)
        /\ sTtl' = [x \in (DOMAIN sTtl) \ dead |-> sTtl[x]]



(* String.prototype.localeCompare orders letters first by the letter, a   *)
(* before b whatever the case, and strings alike in their letters by the   *)
(* case, lower case before upper case                                      *)
LetterRank(c) == CASE c = "a" -> 1 [] c = "b" -> 2 [] c = "B" -> 2 [] OTHER -> 0
CaseRank(c) == CASE c = "B" -> 1 [] OTHER -> 0

(* rank of a character in the order of its UTF-16 code unit, the order of *)
(* the < operator on strings                                               *)
CodeUnitRank(c) == CASE c = "a" -> 97 [] c = "b" -> 98 [] c = "B" -> 66 [] OTHER -> 0

(* lexicographic order of two strings by a rank of their characters *)
RECURSIVE RankLess(_, _, _)
RankLess(rank(_), x, y) ==
    IF y = <<>> THEN FALSE
    ELSE IF x = <<>> THEN TRUE
    ELSE IF rank(Head(x)) = rank(Head(y)) THEN RankLess(rank, Tail(x), Tail(y))
    ELSE rank(Head(x)) < rank(Head(y))

(* keyA.localeCompare(keyB) < 0 *)
LocaleLess(x, y) ==
    \/ RankLess(LetterRank, x, y)
    \/ ~RankLess(LetterRank, y, x) /\ RankLess(CaseRank, x, y)

(* midKey < targetKey *)
RECURSIVE CodeUnitLess(_, _)
CodeUnitLess(x, y) ==
    IF y = <<>> THEN FALSE
    ELSE IF x = <<>> THEN TRUE
    ELSE IF Head(x) = Head(y) THEN CodeUnitLess(Tail(x), Tail(y))
    ELSE CodeUnitRank(Head(x)) < CodeUnitRank(Head(y))

(* entries.sort((a, b) => String(a.key).localeCompare(String(b.key))) for *)
(* entries with distinct keys                                              *)
RECURSIVE SortByKey(_)
SortByKey(entries) ==
    IF entries = {} THEN <<>>
    ELSE LET first == CHOOSE e \in entries :
                        \A o \in entries \ {e} : LocaleLess(e.key, o.key)
         IN  <<first>> \o SortByKey(entries \ {first})

----------------------------------------------------------------------------
(* Memtable: operations on the record [data, sizeBytes] at time t *)

(* Buffer.byteLength(JSON.stringify(s)) for a string without escapes *)
calculateSize(len) == len + 2

(* the decimal digits of n >= 0 *)
RECURSIVE Digits(_)
Digits(n) == IF n < 10 THEN 1 ELSE 1 + Digits(n \div 10)

(* Buffer.byteLength(JSON.stringify(value)) *)
calculateValueSize(value) ==
    CASE value.type = "string" -> calculateSize(Len(value.str))
      [] value.type = "number" ->
            IF value.num < 0 THEN 1 + Digits(-value.num) ELSE Digits(value.num)
      [] OTHER -> 4

calculateEntrySize(entry) ==
    calculateSize(Len(entry.key)) + calculateValueSize(entry.value)
    + 8 + (IF entry.ttl # NoTtl THEN 8 ELSE 0) + 4

(* `entry.ttl && entry.ttl < Date.now()` *)
EntryExpired(entry, t) == entry.ttl # NoTtl /\ entry.ttl < t

Memtable_set(mem, k, v, ttl, t) ==
    LET entry == NewEntry(mem.data, k, v, ttl, t)
        freed == IF MapHas(mem.data, k) THEN calculateEntrySize(mem.data[k]) ELSE 0
    IN  [ data      |-> MapSet(mem.data, k, entry),
          sizeBytes |-> mem.sizeBytes - freed + calculateEntrySize(entry) ]

(* get(key): the value returned and the memtable left behind *)
Memtable_get(mem, k, t) ==
    IF ~MapHas(mem.data, k) THEN [res |-> Null, mem |-> mem]
    ELSE IF EntryExpired(mem.data[k], t)
    THEN [ res |-> Null,
           mem |-> [ data      |-> MapDelete(mem.data, k),
                     sizeBytes |-> mem.sizeBytes - calculateEntrySize(mem.data[k]) ] ]
    ELSE [res |-> mem.data[k].value, mem |-> mem]

(* delete(key): the entry is removed from the map, no tombstone is written *)
Memtable_delete(mem, k) ==
    IF MapHas(mem.data, k)
    THEN [ res |-> TRUE,
           mem |-> [ data      |-> MapDelete(mem.data, k),
                     sizeBytes |-> mem.sizeBytes - calculateEntrySize(mem.data[k]) ] ]
    ELSE [res |-> FALSE, mem |-> mem]

Memtable_keys(mem, pattern, t) ==
    { k \in DOMAIN mem.data :
        /\ ~EntryExpired(mem.data[k], t)
        /\ mem.data[k].value # Null
        /\ MemtableKeyMatches(pattern, k) }

Memtable_clear == [data |-> EmptyMap, sizeBytes |-> 0]

(* shouldFlush(), which StorageEngine calls as isFull() *)
maxSizeBytes == 40
Memtable_shouldFlush(mem) == mem.sizeBytes >= maxSizeBytes

(* data.size, which StorageEngine calls as size() *)
Memtable_size(mem) == Cardinality(DOMAIN mem.data)

(* getAllEntries(), which StorageEngine calls as getEntries() *)
Memtable_getAllEntries(mem, t) ==
    SortByKey({ mem.data[k] : k \in { x \in DOMAIN mem.data : ~EntryExpired(mem.data[x], t) } })

(* Memtable.exists, Memtable.expire and Memtable.ttl are called by        *)
(* StorageEngine and are not part of Memtable.ts; they follow section 4.1  *)
(* of the specification: an entry is live unless expires_at <= now.      *)
Memtable_exists(mem, k, t) ==
    LET got == Memtable_get(mem, k, t)
    IN  [res |-> got.res # Null, mem |-> got.mem]

Memtable_expire(mem, k, ttl, t) ==
    IF ~MapHas(mem.data, k) \/ (mem.data[k].ttl # NoTtl /\ mem.data[k].ttl <= t)
    THEN [res |-> FALSE, mem |-> mem]
    ELSE LET entry == [mem.data[k] EXCEPT !.ttl = t + ttl]
         IN  [ res |-> TRUE,
               mem |-> [ data      |-> MapSet(mem.data, k, entry),
                         sizeBytes |-> mem.sizeBytes - calculateEntrySize(mem.data[k])
                                       + calculateEntrySize(entry) ] ]

Memtable_ttl(mem, k, t) ==
    IF ~MapHas(mem.data, k) THEN -2
    ELSE IF mem.data[k].ttl = NoTtl THEN -1
    ELSE IF mem.data[k].ttl <= t THEN -2
    ELSE CeilSeconds(mem.data[k].ttl - t)

----------------------------------------------------------------------------
(* SSTable *)

enableBloomFilter == TRUE

(* new SSTable(level, entries, config): the bloom filter is given as the  *)
(* set of keys added to it; a key that was added always tests positive,   *)
(* and a false positive only sends get() into the binary search.          *)
NewSSTable(level, entries, t) ==
    [ level     |-> level,
      entries   |-> entries,
      createdAt |-> t,
      bloom     |-> IF enableBloomFilter /\ entries # <<>>
                    THEN { entries[i].key : i \in 1..Len(entries) } ELSE {},
      hasBloom  |-> enableBloomFilter /\ entries # <<>> ]

BloomFilter_contains(table, k) == k \in table.bloom

(* binarySearch(key): the index of the entry found, 0 for undefined *)
RECURSIVE binarySearch(_, _, _, _)
binarySearch(entries, k, left, right) ==
    IF left > right THEN 0
    ELSE LET mid == (left + right) \div 2
         IN  IF entries[mid].key = k THEN mid
             ELSE IF CodeUnitLess(entries[mid].key, k)
                  THEN binarySearch(entries, k, mid + 1, right)
                  ELSE binarySearch(entries, k, left, mid - 1)

(* get(key): undefined for a miss or an expired entry, else entry.value *)
SSTable_get(table, k, t) ==
    IF table.hasBloom /\ ~BloomFilter_contains(table, k) THEN Undefined
    ELSE LET at == binarySearch(table.entries, k, 1, Len(table.entries))
         IN  IF at = 0 THEN Undefined
             ELSE IF EntryExpired(table.entries[at], t) THEN Undefined
             ELSE table.entries[at].value

(* SSTable.exists is called by StorageEngine and is not part of           *)
(* SSTable.ts; it follows the specification: EXISTS is GET not absent.     *)
SSTable_exists(table, k, t) ==
    LET at == binarySearch(table.entries, k, 1, Len(table.entries))
    IN  /\ at # 0
        /\ ~(table.entries[at].ttl # NoTtl /\ table.entries[at].ttl <= t)
        /\ table.entries[at].value # Null

----------------------------------------------------------------------------
(* StorageEngine *)

(* the tables in the order get() and exists() visit them: level 0 to 6,   *)
(* and within a level from the last pushed to the first                    *)
RECURSIVE Reverse(_)
Reverse(s) == IF s = <<>> THEN <<>> ELSE Reverse(Tail(s)) \o <<Head(s)>>

RECURSIVE TablesFrom(_, _)
TablesFrom(tables, level) ==
    IF level > 6 THEN <<>>
    ELSE Reverse(tables[level]) \o TablesFrom(tables, level + 1)

(* the loop of get(): the first table answer that is !== null *)
RECURSIVE FirstNonNull(_, _, _)
FirstNonNull(order, k, t) ==
    IF order = <<>> THEN Null
    ELSE LET value == SSTable_get(Head(order), k, t)
         IN  IF value # Null THEN value ELSE FirstNonNull(Tail(order), k, t)

(* flushMemtable(): the memtable, WAL and tables it leaves, and whether  *)
(* it handed triggerCompaction to setImmediate, which it does when level 0 *)
(* holds four tables and compactionInProgress is not set.                  *)
flushMemtable(mem, log, tables, t) ==
    IF Memtable_size(mem) = 0
    THEN [mem |-> mem, wal |-> log, sstables |-> tables, schedules |-> FALSE]
    ELSE [ mem       |-> Memtable_clear,
           wal       |-> <<>>,
           sstables  |-> [tables EXCEPT ![0] =
                            Append(@, NewSSTable(0, Memtable_getAllEntries(mem, t), t))],
           schedules |-> Len(tables[0]) + 1 >= 4 /\ ~compactionInProgress ]

(* a log that drops what is handed to it *)
WAL_discard(log, op) == log

(* wal.append(op, ...): WAL.append(entry) pushes its first argument *)
WAL_append(log, op) == Append(log, op)

(* set(): the memtable `from`, the WAL and the tables after the call *)
StorageEngine_setOn(from, k, v, ttl) ==
    LET log == WAL_append(wal, "SET")
        mem == Memtable_set(from, k, v, ttl, now)
    IN  IF Memtable_shouldFlush(mem)
        THEN flushMemtable(mem, log, sstables, now)
        ELSE [mem |-> mem, wal |-> log, sstables |-> sstables, schedules |-> FALSE]

(* set() while the WAL holds fewer than maxWal operations and level 0     *)
(* holds at most maxRuns tables                                            *)
StorageEngine_setBounded(k, v, ttl, maxRuns, maxWal) ==
    LET done == StorageEngine_setOn(memtable, k, v, ttl)
    IN  /\ Len(wal) < maxWal
        /\ Len(done.sstables[0]) <= maxRuns
        /\ done.schedules => Len(compactionStats) + scheduled < MaxCompactions
        /\ memtable' = done.mem
        /\ wal' = done.wal
        /\ sstables' = done.sstables
        /\ scheduled' = IF done.schedules THEN scheduled + 1 ELSE scheduled
        /\ UNCHANGED <<compactionStats, compactionInProgress>>

StorageEngine_setWithin(k, v, ttl, maxRuns) ==
    StorageEngine_setBounded(k, v, ttl, maxRuns, MaxWal)

StorageEngine_set(k, v, ttl) == StorageEngine_setWithin(k, v, ttl, MaxRuns)

StorageEngine_getResult(k) ==
    LET memValue == Memtable_get(memtable, k, now).res
    IN  IF memValue # Null THEN memValue
        ELSE FirstNonNull(TablesFrom(sstables, 0), k, now)

StorageEngine_get(k) ==
    /\ memtable' = Memtable_get(memtable, k, now).mem
    /\ UNCHANGED <<wal, sstables, compactionStats, scheduled, compactionInProgress>>

StorageEngine_delResult(k) == Memtable_delete(memtable, k).res

StorageEngine_del(k) ==
    /\ Len(wal) < MaxWal
    /\ wal' = WAL_append(wal, "DEL")
    /\ memtable' = Memtable_delete(memtable, k).mem
    /\ UNCHANGED <<sstables, compactionStats, scheduled, compactionInProgress>>

StorageEngine_existsResult(k) ==
    \/ Memtable_exists(memtable, k, now).res
    \/ \E level \in 0..6 : \E i \in 1..Len(sstables[level]) :
            SSTable_exists(sstables[level][i], k, now)

StorageEngine_exists(k) ==
    /\ memtable' = Memtable_exists(memtable, k, now).mem
    /\ UNCHANGED <<wal, sstables, compactionStats, scheduled, compactionInProgress>>

StorageEngine_expireResult(k, ttl) == Memtable_expire(memtable, k, ttl, now).res

StorageEngine_expire(k, ttl) ==
    /\ Len(wal) < MaxWal
    /\ wal' = WAL_append(wal, "EXPIRE")
    /\ memtable' = Memtable_expire(memtable, k, ttl, now).mem
    /\ UNCHANGED <<sstables, compactionStats, scheduled, compactionInProgress>>

(* ttl(): a memtable answer below 0 is replaced by -1 *)
StorageEngine_ttlResult(k) ==
    LET memTtl == Memtable_ttl(memtable, k, now)
    IN  IF memTtl >= 0 THEN memTtl ELSE -1

(* keys(): the Set filled from the memtable and from every entry of every *)
(* table; StorageEntry has no `deleted` field, so `!entry.deleted` holds   *)
StorageEngine_keysResult(pattern) ==
    Memtable_keys(memtable, pattern, now)
    \cup { k \in Keys :
            \E level \in 0..6 : \E i \in 1..Len(sstables[level]) :
                \E j \in 1..Len(sstables[level][i].entries) :
                    /\ sstables[level][i].entries[j].key = k
                    /\ EngineKeyMatches(pattern, k) }

(* info(): `!entry.value === null` compares the boolean !entry.value     *)
(* with null, which is false for every entry                              *)
InfoCountsEntry(entry) == FALSE

(* info(): totalEntries is the size of the Set filled from the entries of *)
(* the runs that pass the test above; the memtable is not visited         *)
StorageEngine_infoTotalEntries ==
    Cardinality({ k \in Keys :
        \E level \in 0..6 : \E i \in 1..Len(sstables[level]) :
            \E j \in 1..Len(sstables[level][i].entries) :
                /\ sstables[level][i].entries[j].key = k
                /\ InfoCountsEntry(sstables[level][i].entries[j]) })

(* metadata.minKey and metadata.maxKey: '' for a table without entries *)
SSTable_minKey(table) ==
    IF table.entries = <<>> THEN <<>> ELSE table.entries[1].key

SSTable_maxKey(table) ==
    IF table.entries = <<>> THEN <<>> ELSE table.entries[Len(table.entries)].key

(* overlaps(other), with the string comparison of JavaScript *)
SSTable_overlaps(table, other) ==
    ~( \/ CodeUnitLess(SSTable_maxKey(table), SSTable_minKey(other))
       \/ CodeUnitLess(SSTable_maxKey(other), SSTable_minKey(table)) )

(* is e the entry the merge keeps among those of its key?  the largest    *)
(* timestamp, then the largest version, then the earliest source          *)
MergeKeeps(tables, i, j) ==
    LET e == tables[i].entries[j]
    IN  \A x \in 1..Len(tables) : \A y \in 1..Len(tables[x].entries) :
            LET o == tables[x].entries[y]
            IN  (o.key = e.key /\ <<x, y>> # <<i, j>>) =>
                    \/ o.timestamp < e.timestamp
                    \/ o.timestamp = e.timestamp /\ o.version < e.version
                    \/ o.timestamp = e.timestamp /\ o.version = e.version /\ i < x

(* SSTable.merge(tables, level, enableBloomFilter) is called by compact()  *)
(* and is not part of SSTable.ts; it follows section 4.5 of the            *)
(* specification: one entry per key, expired entries dropped, a tombstone  *)
(* dropped only when the output level is the bottom one.                   *)
SSTable_merge(tables, level, t) ==
    LET Stays(i, j) ==
            LET e == tables[i].entries[j]
            IN  /\ MergeKeeps(tables, i, j)
                /\ ~(e.ttl # NoTtl /\ e.ttl <= t)
                /\ ~(e.value = Null /\ level = 6)
        kept == UNION { { tables[i].entries[j] :
                            j \in { y \in 1..Len(tables[i].entries) : Stays(i, y) } } :
                        i \in 1..Len(tables) }
    IN  NewSSTable(level, SortByKey(kept), t)

(* Array.filter *)
RECURSIVE SelectTables(_, _)
SelectTables(tables, keep) ==
    IF tables = <<>> THEN <<>>
    ELSE (IF Head(tables) \in keep THEN <<Head(tables)>> ELSE <<>>)
         \o SelectTables(Tail(tables), keep)

Min(a, b) == IF a < b THEN a ELSE b

RECURSIVE Pow10(_)
Pow10(n) == IF n = 0 THEN 1 ELSE 10 * Pow10(n - 1)

(* a compaction that merges nothing *)
compactNothing(tables, stats, level, t) == [sstables |-> tables, compactionStats |-> stats]

(* compact(): the loop over the levels 0..5, from `level` on; the tables  *)
(* and the statistics it leaves at time t                                  *)
RECURSIVE compact(_, _, _, _)
compact(tables, stats, level, t) ==
    IF level >= 6 THEN [sstables |-> tables, compactionStats |-> stats]
    ELSE LET maxTablesAtLevel == IF level = 0 THEN 4 ELSE Pow10(level)
             here == tables[level]
         IN  IF Len(here) < maxTablesAtLevel
             THEN compact(tables, stats, level + 1, t)
             ELSE LET taken == Min(Len(here), maxTablesAtLevel)
                      tablesToCompact == SubSeq(here, 1, taken)
                      nextLevel == level + 1
                      nextLevelTables == tables[nextLevel]
                      overlapping ==
                          { x \in { nextLevelTables[i] : i \in 1..Len(nextLevelTables) } :
                              \E i \in 1..taken :
                                  SSTable_overlaps(tablesToCompact[i], x) }
                      overlappingTables == SelectTables(nextLevelTables, overlapping)
                      allTablesToMerge == tablesToCompact \o overlappingTables
                      mergedTable == SSTable_merge(allTablesToMerge, nextLevel, t)
                      others == { nextLevelTables[i] : i \in 1..Len(nextLevelTables) }
                                    \ overlapping
                      \* the statistics pushed, without byte counts and duration
                      stat == [ level       |-> level,
                                inputFiles  |-> Len(allTablesToMerge),
                                outputFiles |-> 1 ]
                  IN  compact([tables EXCEPT
                                  ![level] = SubSeq(here, taken + 1, Len(here)),
                                  ![nextLevel] =
                                      Append(SelectTables(nextLevelTables, others),
                                             mergedTable)],
                              Append(stats, stat), level + 1, t)

(* triggerCompaction(): one callback of setImmediate or of the interval    *)
(* timer; compactionInProgress is set and reset within it                  *)
StorageEngine_triggerCompaction ==
    LET done == compact(sstables, compactionStats, 0, now)
    IN  /\ sstables' = done.sstables
        /\ compactionStats' = done.compactionStats
        /\ UNCHANGED <<memtable, wal, compactionInProgress>>

(* flushall() *)
StorageEngine_flushall ==
    /\ wal' = <<>>
    /\ memtable' = Memtable_clear
    /\ sstables' = [level \in 0..6 |-> <<>>]
    /\ compactionStats' = <<>>
    /\ UNCHANGED <<scheduled, compactionInProgress>>

----------------------------------------------------------------------------
(* WorkerThread.executeCommand: the commands that are more than one call  *)
(* of the engine.  No step of a command waits for a timer or for I/O, so  *)
(* the handler of one message runs to its response before the next        *)
(* message is delivered.                                                  *)

(* the answer of a command: the code of the error thrown, or the values *)
Answer(error, values) == [error |-> error, values |-> values]

(* `default: throw new ValidationError(...)`: the switch has no case for *)
(* MGET and MSET, and nothing is read or written before the throw        *)
Worker_default == Answer("VALIDATION_ERROR", <<>>)

Worker_mgetResult(keys) == Worker_default

(* case 'SET': `!args.key || args.value === undefined`; args.ttl is not  *)
(* looked at                                                              *)
Worker_setResult(k, v, ttl) ==
    IF k = <<>> \/ v = Undefined
    THEN Answer("VALIDATION_ERROR", <<>>) ELSE Answer("NONE", <<>>)

(* case 'EXPIRE': `!args.key || !args.ttl` rejects a ttl of 0 only *)
Worker_expireResult(k, ttl) ==
    IF k = <<>> \/ ttl = 0
    THEN Answer("VALIDATION_ERROR", <<>>)
    ELSE Answer("NONE", <<StorageEngine_expireResult(k, ttl)>>)

(* SnapDB.set sends the command; SnapDB.expire tests `ttl <= 0` first *)
SnapDB_setResult(k, v, ttl) == Worker_setResult(k, v, ttl)

SnapDB_expireResult(k, ttl) ==
    IF ttl <= 0 THEN Answer("VALIDATION_ERROR", <<>>) ELSE Worker_expireResult(k, ttl)

Worker_msetResult(args) == Worker_default

Worker_mset(args) == UNCHANGED engineVars

(* SnapDB.mset: the args posted to the worker carry one ttl, the first *)
(* entry's                                                              *)
SnapDB_msetArgs(entries) ==
    [ keys   |-> [i \in 1..Len(entries) |-> entries[i].key],
      values |-> [i \in 1..Len(entries) |-> entries[i].value],
      ttl    |-> IF entries = <<>> THEN NoTtl ELSE entries[1].ttl ]

(* `typeof current === 'number' ? current : 0` *)
Worker_numValue(current) == IF current.type = "number" THEN current.num ELSE 0

(* INCR (by = 1) and DECR (by = -1) with args.amount absent: the result *)
Worker_incrResult(k, by) == Worker_numValue(StorageEngine_getResult(k)) + by

(* INCR/DECR: storageEngine.get(key), then storageEngine.set(key, newValue) *)
Worker_incr(k, by) ==
    LET read == Memtable_get(memtable, k, now).mem
        done == StorageEngine_setOn(read, k, Num(Worker_incrResult(k, by)), NoTtl)
    IN  /\ Len(wal) < MaxWal
        /\ Len(done.sstables[0]) <= MaxRuns
        /\ done.schedules => Len(compactionStats) + scheduled < MaxCompactions
        /\ memtable' = done.mem
        /\ wal' = done.wal
        /\ sstables' = done.sstables
        /\ scheduled' = IF done.schedules THEN scheduled + 1 ELSE scheduled
        /\ UNCHANGED <<compactionStats, compactionInProgress>>

----------------------------------------------------------------------------
(* CompactionEngine: compact(sstables) over the list of tables a caller    *)
(* holds, at time t                                                        *)

(* the entries of the tables, table after table *)
RECURSIVE AllEntries(_)
AllEntries(tables) ==
    IF tables = <<>> THEN <<>> ELSE Head(tables).entries \o AllEntries(Tail(tables))

(* the keyMap of mergeSSTablesWithOverlap(): an entry replaces the one     *)
(* held for its key only when `entry.timestamp > existing.timestamp`       *)
RECURSIVE KeyMap(_, _)
KeyMap(map, entries) ==
    IF entries = <<>> THEN map
    ELSE LET entry == Head(entries)
         IN  KeyMap(IF ~MapHas(map, entry.key) \/ entry.timestamp > map[entry.key].timestamp
                    THEN MapSet(map, entry.key, entry) ELSE map,
                    Tail(entries))

(* mergeSSTablesWithOverlap(): tombstones and expired entries of the       *)
(* keyMap are skipped, the rest is sorted by key                           *)
CompactionEngine_mergeSSTablesWithOverlap(tables, t) ==
    LET keyMap == KeyMap(EmptyMap, AllEntries(tables))
    IN  SortByKey({ keyMap[k] : k \in { x \in DOMAIN keyMap :
                                          /\ keyMap[x].value # Null
                                          /\ ~EntryExpired(keyMap[x], t) } })

(* mergeSSTables(): the k-way merge over what is left of each iterator;    *)
(* the first iterator whose head has the smallest key gives its head,      *)
(* which is pushed unless it is a tombstone or expired                     *)
RECURSIVE CompactionEngine_mergeSSTables(_, _)
CompactionEngine_mergeSSTables(iterators, t) ==
    LET open == { i \in 1..Len(iterators) : iterators[i] # <<>> }
    IN  IF open = {} THEN <<>>
        ELSE LET minIndex == CHOOSE i \in open : \A j \in open \ {i} :
                                \/ CodeUnitLess(iterators[i][1].key, iterators[j][1].key)
                                \/ iterators[i][1].key = iterators[j][1].key /\ i < j
                 minEntry == iterators[minIndex][1]
                 rest == CompactionEngine_mergeSSTables(
                            [iterators EXCEPT ![minIndex] = Tail(@)], t)
             IN  IF minEntry.value = Null \/ EntryExpired(minEntry, t)
                 THEN rest ELSE <<minEntry>> \o rest

(* sstables.sort((a, b) => a.createdAt - b.createdAt), a stable sort *)
RECURSIVE SortByCreatedAt(_)
SortByCreatedAt(tables) ==
    IF tables = <<>> THEN <<>>
    ELSE LET first == CHOOSE i \in 1..Len(tables) :
                        /\ \A j \in 1..Len(tables) : tables[i].createdAt <= tables[j].createdAt
                        /\ \A j \in 1..(i - 1) : tables[j].createdAt > tables[i].createdAt
         IN  <<tables[first]>>
             \o SortByCreatedAt(SubSeq(tables, 1, first - 1)
                                \o SubSeq(tables, first + 1, Len(tables)))

(* compactLevel0(): one new table at level 1 *)
CompactionEngine_compactLevel0(tables, t) ==
    <<NewSSTable(1, CompactionEngine_mergeSSTablesWithOverlap(tables, t), t)>>

(* compactHigherLevel(): the first four tables are merged into one table   *)
(* of the same level, pushed after the tables that were left out           *)
CompactionEngine_compactHigherLevel(level, tables, t) ==
    LET taken == Min(Len(tables), 4)
        toCompact == SubSeq(tables, 1, taken)
        merged == CompactionEngine_mergeSSTables(
                      [i \in 1..taken |-> toCompact[i].entries], t)
    IN  IF taken <= 1 THEN tables
        ELSE SubSeq(tables, taken + 1, Len(tables)) \o <<NewSSTable(level, merged, t)>>

CompactionEngine_compactLevel(level, tables, t) ==
    IF level = 0
    THEN CompactionEngine_compactLevel0(SortByCreatedAt(tables), t)
    ELSE CompactionEngine_compactHigherLevel(level, SortByCreatedAt(tables), t)

(* groupByLevel(): the levels in the order of their first table, and the   *)
(* tables of a level in the order of the list                              *)
RECURSIVE LevelsOf(_, _)
LevelsOf(tables, seen) ==
    IF tables = <<>> THEN <<>>
    ELSE IF Head(tables).level \in seen THEN LevelsOf(Tail(tables), seen)
    ELSE <<Head(tables).level>> \o LevelsOf(Tail(tables), seen \cup {Head(tables).level})

RECURSIVE TablesAt(_, _)
TablesAt(tables, level) ==
    IF tables = <<>> THEN <<>>
    ELSE (IF Head(tables).level = level THEN <<Head(tables)>> ELSE <<>>)
         \o TablesAt(Tail(tables), level)

(* compact(): a level of one table is passed on, any other is compacted;   *)
(* the tables returned and the levels whose statistics were pushed         *)
RECURSIVE CompactionEngine_compactLevels(_, _, _)
CompactionEngine_compactLevels(tables, levels, t) ==
    IF levels = <<>> THEN [sstables |-> <<>>, compacted |-> <<>>]
    ELSE LET level == Head(levels)
             here == TablesAt(tables, level)
             rest == CompactionEngine_compactLevels(tables, Tail(levels), t)
         IN  IF Len(here) <= 1
             THEN [rest EXCEPT !.sstables = here \o @]
             ELSE [ sstables  |-> CompactionEngine_compactLevel(level, here, t) \o rest.sstables,
                    compacted |-> <<level>> \o rest.compacted ]

CompactionEngine_compact(tables, t) ==
    CompactionEngine_compactLevels(tables, LevelsOf(tables, {}), t)

----------------------------------------------------------------------------
(* The contract of the commands (sections 3, 4.6 and 4.7 of the          *)
(* specification), kept as a history of the commands issued: `contract`   *)
(* maps a key to what its last writes made of it, a live entry with its   *)
(* value and expiry time, a deleted one, or one whose expires_at <= now.  *)
(* It is read by the properties only, never by the stores.                *)

Gone(how) == [state |-> how, value |-> Null, expiresAt |-> NoTtl]

Live(k) == MapHas(contract, k) /\ contract[k].state = "live"
Deleted(k) == MapHas(contract, k) /\ contract[k].state = "deleted"
Elapsed(k) == MapHas(contract, k) /\ contract[k].state = "expired"
Pending(k) == Live(k) /\ contract[k].expiresAt # NoTtl

Contract_set(k, v, ttl) ==
    contract' = MapSet(contract, k,
                       [ state     |-> "live",
                         value     |-> v,
                         expiresAt |-> IF ttl # NoTtl THEN now + ttl ELSE NoTtl ])

Contract_del(k) == contract' = MapSet(contract, k, Gone("deleted"))

Contract_expire(k, ttl) ==
    contract' = IF Live(k)
                THEN MapSet(contract, k, [contract[k] EXCEPT !.expiresAt = now + ttl])
                ELSE contract

Contract_tick(t) ==
    contract' = [ k \in DOMAIN contract |->
                    IF /\ contract[k].state = "live"
                       /\ contract[k].expiresAt # NoTtl
                       /\ contract[k].expiresAt <= t
                    THEN Gone("expired") ELSE contract[k] ]

(* what GET, TTL and KEYS answer under the contract *)
Contract_get(k) == IF Live(k) THEN contract[k].value ELSE Null

Contract_ttl(k) ==
    IF ~Live(k) THEN -2
    ELSE IF contract[k].expiresAt = NoTtl THEN -1
    ELSE CeilSeconds(contract[k].expiresAt - now)

(* INCR/DECR: the current value parsed as an integer, 0 when the key is *)
(* absent or the value does not parse                                    *)
Contract_number(value) ==
    CASE value.type = "number" -> value.num
      [] value.type = "string" ->
            IF parseInt(value.str).nan THEN 0 ELSE parseInt(value.str).n
      [] OTHER -> 0

Contract_incrResult(k, by) == Contract_number(Contract_get(k)) + by

Contract_incr(k, by) ==
    contract' = MapSet(contract, k,
                       [ state     |-> "live",
                         value     |-> Num(Contract_incrResult(k, by)),
                         expiresAt |-> NoTtl ])

(* MSET: SET(key, value, ttl) for each element in list order; the map    *)
(* after the elements of `entries` were applied to `m` at time t          *)
RECURSIVE Contract_msetOn(_, _, _)
Contract_msetOn(m, entries, t) ==
    IF entries = <<>> THEN m
    ELSE Contract_msetOn(
            MapSet(m, Head(entries).key,
                   [ state     |-> "live",
                     value     |-> Head(entries).value,
                     expiresAt |-> IF Head(entries).ttl # NoTtl
                                   THEN t + Head(entries).ttl ELSE NoTtl ]),
            Tail(entries), t)

Contract_mset(entries) == contract' = Contract_msetOn(contract, entries, now)

(* the glob of section 4.7: * any sequence, ? one character, else literal *)
RECURSIVE GlobMatches(_, _)
GlobMatches(pattern, str) ==
    IF pattern = <<>> THEN str = <<>>
    ELSE IF Head(pattern) = "*"
         THEN \/ GlobMatches(Tail(pattern), str)
              \/ str # <<>> /\ GlobMatches(pattern, Tail(str))
         ELSE /\ str # <<>>
              /\ Head(pattern) = "?" \/ Head(pattern) = Head(str)
              /\ GlobMatches(Tail(pattern), Tail(str))

(* an absent pattern selects every key *)
PatternSelects(pattern, k) == pattern = <<>> \/ GlobMatches(pattern, k)

Contract_keys(pattern) == { k \in Keys : Live(k) /\ PatternSelects(pattern, k) }

(* a result that stands for "absent" *)
Absent(res) == res \in {Null, Undefined}

----------------------------------------------------------------------------
(* SnapDB, the worker-backed client, and the messages of its worker.  A    *)
(* message is the object posted; a field the object does not have is 0 or  *)
(* the empty string, and `type` "undefined" stands for no type field.      *)

Data(id, type, command, key, error) ==
    [id |-> id, type |-> type, command |-> command, key |-> key, error |-> error]
NoData == Data(0, "", "", <<>>, "")

Message(type, id, command, key, data) ==
    [type |-> type, id |-> id, command |-> command, key |-> key, error |-> "", data |-> data]

(* `sent` is history: the ids of the requests posted to the worker *)
NoMessages == [toWorker |-> <<>>, toClient |-> <<>>, sent |-> <<>>]

(* the fields of SnapDB after its constructor: initializeWorker() has     *)
(* created the Worker and started the checkReady timer.  requests[id] is   *)
(* the promise sendCommand returned for its id-th call: where it stands    *)
(* and how many times its resolve or reject was called.                    *)
NewSnapDB ==
    [ isReady         |-> FALSE,
      closed          |-> FALSE,
      readyResolved   |-> FALSE,   \* readyPromise
      requests        |-> <<>>,
      pendingRequests |-> {} ]

(* the worker thread before its first message: `parentPort.once('message', *)
(* config => new WorkerThread(config))`                                    *)
NewWorker == [life |-> "loaded", running |-> <<>>]

Promise(command, key) ==
    [command |-> command, key |-> key, state |-> "awaiting", settles |-> 0]

(* the request sendCommand posts: `{id, command, args}` *)
Request(id, promise) == Message("undefined", id, promise.command, promise.key, NoData)

Settle(requests, ids, how) ==
    [ id \in DOMAIN requests |->
        IF id \in ids
        THEN [requests[id] EXCEPT
                 !.state = IF requests[id].settles = 0 THEN how ELSE @,
                 !.settles = @ + 1]
        ELSE requests[id] ]

(* the requests of ids, posted in the order of their calls *)
RECURSIVE PostAll(_, _, _)
PostAll(queue, requests, ids) ==
    IF ids = {} THEN queue
    ELSE LET id == CHOOSE i \in ids : \A j \in ids : i <= j
         IN  PostAll(Append(queue, Request(id, requests[id])), requests, ids \ {id})

RECURSIVE SetToSeq(_)
SetToSeq(ids) ==
    IF ids = {} THEN <<>>
    ELSE LET id == CHOOSE i \in ids : \A j \in ids : i <= j
         IN  <<id>> \o SetToSeq(ids \ {id})

Awaiting == { id \in DOMAIN client.requests : client.requests[id].state = "awaiting" }

(* sendCommand(): `await this.ensureReady()` returns at once when isReady  *)
(* or when readyPromise is resolved, else the call stays suspended; past   *)
(* it the timer is armed, the entry set and the request posted             *)
SnapDB_sendCommand(command, key) ==
    LET id == Len(client.requests) + 1
        issued == [client EXCEPT !.requests = Append(@, Promise(command, key))]
    IN  IF client.isReady \/ client.readyResolved
        THEN /\ client' = [issued EXCEPT
                              !.requests[id].state = "pending",
                              !.pendingRequests = @ \cup {id}]
             /\ port' = [port EXCEPT
                            !.toWorker = Append(@, Request(id, issued.requests[id])),
                            !.sent = Append(@, id)]
        ELSE /\ client' = issued
             /\ UNCHANGED port

(* checkReady(), the callback of setTimeout(checkReady, 10): it resolves   *)
(* readyPromise when isReady, which resumes the suspended calls in order,  *)
(* and arms itself again otherwise                                         *)
SnapDB_checkReady ==
    /\ ~client.readyResolved
    /\ IF client.isReady
       THEN /\ client' = [client EXCEPT
                             !.readyResolved = TRUE,
                             !.requests = [ id \in DOMAIN @ |->
                                              IF id \in Awaiting
                                              THEN [@[id] EXCEPT !.state = "pending"]
                                              ELSE @[id] ],
                             !.pendingRequests = @ \cup Awaiting]
            /\ port' = [port EXCEPT
                           !.toWorker = PostAll(@, client.requests, Awaiting),
                           !.sent = @ \o SetToSeq(Awaiting)]
       ELSE UNCHANGED <<client, port>>

(* handleWorkerResponse(response): response.id is looked up *)
SnapDB_handleWorkerResponse(message) ==
    IF message.id \notin client.pendingRequests
    THEN UNCHANGED client
    ELSE client' = [client EXCEPT
                       !.pendingRequests = @ \ {message.id},
                       !.requests = Settle(@, {message.id},
                                           IF message.error # "" THEN message.error
                                           ELSE "resolved")]

(* worker.on('message'): {type: 'ready'} sets isReady, anything else is    *)
(* taken for a response                                                    *)
SnapDB_onMessage ==
    /\ port.toClient # <<>>
    /\ ~client.closed
    /\ port' = [port EXCEPT !.toClient = Tail(@)]
    /\ LET message == Head(port.toClient)
       IN  IF message.type = "ready"
           THEN client' = [client EXCEPT !.isReady = TRUE]
           ELSE SnapDB_handleWorkerResponse(message)

(* the timer of sendCommand: the entry is deleted, the promise rejected *)
SnapDB_onTimeout(id) ==
    /\ id \in client.pendingRequests
    /\ client' = [client EXCEPT
                    !.pendingRequests = @ \ {id},
                    !.requests = Settle(@, {id}, "TIMEOUT_ERROR")]

(* worker.on('error'): every pending request is rejected, the map cleared *)
SnapDB_onError ==
    client' = [client EXCEPT
                  !.pendingRequests = {},
                  !.requests = Settle(@, client.pendingRequests, "WORKER_ERROR")]

(* close(): every pending request is rejected and its timer cleared, the   *)
(* worker terminated, isReady reset, the listeners removed                 *)
SnapDB_close ==
    /\ client' = [client EXCEPT
                    !.pendingRequests = {},
                    !.requests = Settle(@, client.pendingRequests, "WORKER_ERROR"),
                    !.isReady = FALSE,
                    !.closed = TRUE]
    /\ port' = NoMessages
    /\ worker' = [worker EXCEPT !.life = "terminated"]

(* the timers of the client that are armed: one per pending request, and   *)
(* checkReady's until readyPromise is resolved                             *)
LiveTimers ==
    client.pendingRequests \cup (IF client.readyResolved THEN {} ELSE {0})

(* The worker thread.  worker.running holds the calls of handleRequest     *)
(* that are suspended at `await this.executeCommand(...)`, each with the   *)
(* id and command of its request and the error it will answer.            *)

(* `parentPort.once('message', config => new WorkerThread(config))`: the   *)
(* first message, whatever it is, constructs the WorkerThread, which posts *)
(* the 'workerReady' event                                                 *)
Worker_boot ==
    /\ worker.life = "loaded"
    /\ port.toWorker # <<>>
    /\ worker' = [worker EXCEPT !.life = "constructed"]
    /\ port' = [port EXCEPT
                  !.toWorker = Tail(@),
                  !.toClient = Append(@, Message("event", 0, "", <<>>,
                                                 Data(0, "workerReady", "", <<>>, "")))]

(* an event loop that would run a message at any time *)
AnyTime == TRUE

(* a message or a timer callback is run when no promise reaction is left:  *)
(* every await of a handler is on a promise that is already settled, so    *)
(* the handler runs to its end before the event loop takes the next one    *)
MicrotasksDrained == worker.running = <<>>

(* executeCommand(command, args) for the commands posted here; a SET       *)
(* carries the value 'v1' and a ttl of one second                          *)
Worker_executeCommand(command, k) ==
    CASE command = "SET" -> /\ StorageEngine_set(k, Str(<<"v", "1">>), 1000)
                            /\ Contract_set(k, Str(<<"v", "1">>), 1000)
      [] command = "GET" -> StorageEngine_get(k) /\ UNCHANGED contract
      [] OTHER -> UNCHANGED <<engineVars, contract>>

Worker_executeError(command) ==
    IF command \in {"SET", "GET"} THEN "" ELSE "VALIDATION_ERROR"

(* parentPort.on('message'): `if (message.type === 'request')` runs        *)
(* handleRequest(message.data) up to its await; any other message is       *)
(* ignored                                                                 *)
Worker_onMessage ==
    /\ worker.life = "constructed"
    /\ MicrotasksDrained
    /\ port.toWorker # <<>>
    /\ port' = [port EXCEPT !.toWorker = Tail(@)]
    /\ LET message == Head(port.toWorker)
       IN  IF message.type = "request"
           THEN /\ Worker_executeCommand(message.data.command, message.data.key)
                /\ worker' = [worker EXCEPT
                                 !.running = Append(@,
                                     [ id      |-> message.data.id,
                                       command |-> message.data.command,
                                       error   |-> Worker_executeError(message.data.command) ])]
           ELSE UNCHANGED <<engineVars, contract, worker>>

(* handleRequest() after its await: sendResponse(id, result) or            *)
(* sendError(id, error) posts `{type: 'response', data: response}`         *)
Worker_sendResponse ==
    /\ worker.running # <<>>
    /\ worker' = [worker EXCEPT !.running = Tail(@)]
    /\ port' = [port EXCEPT
                  !.toClient = Append(@, Message("response", 0, "", <<>>,
                                        Data(Head(worker.running).id, "", "", <<>>,
                                             Head(worker.running).error)))]

----------------------------------------------------------------------------
(* wall time passes *)
Tick ==
    \E t \in Instants :
        /\ t > now
        /\ now' = t
        /\ Contract_tick(t)
        /\ UNCHANGED <<simpleVars, engineVars, auxVars>>

(* the implementations of KEYS *)
KeysImplementations == { "SimpleStorage", "Memtable", "SSTable", "StorageEngine" }

NotAsked == [w \in KeysImplementations |-> "pending"]
NoMatcher == [pattern |-> <<>>, key |-> <<>>, selects |-> NotAsked]

Init ==
    /\ now = 0
    /\ sData = EmptyMap
    /\ sTtl = EmptyMap
    /\ memtable = [data |-> EmptyMap, sizeBytes |-> 0]
    /\ wal = <<>>
    /\ sstables = [level \in 0..6 |-> <<>>]
    /\ compactionStats = <<>>
    /\ scheduled = 0
    /\ compactionInProgress = FALSE
    /\ matcher = NoMatcher
    /\ calls = <<>>
    /\ flushed = FALSE
    /\ client = NewSnapDB
    /\ port = NoMessages
    /\ worker = NewWorker
    /\ bloomFilter = NoFilter
    /\ snapshots = EmptyMap
    /\ file = NoFile
    /\ contract = EmptyMap

----------------------------------------------------------------------------
(* SimpleSnapDB over SimpleStorage: one command at a time *)

SimpleSet ==
    \E k \in Keys, v \in Values, ttl \in TtlArgs \cup {NoTtl} :
        /\ SimpleStorage_set(k, v, ttl)
        /\ Contract_set(k, v, ttl)
        /\ UNCHANGED <<now, engineVars, auxVars>>

SimpleGet ==
    \E k \in Keys :
        SimpleStorage_get(k) /\ UNCHANGED <<now, engineVars, auxVars, contract>>

SimpleDel ==
    \E k \in Keys :
        /\ SimpleStorage_del(k)
        /\ Contract_del(k)
        /\ UNCHANGED <<now, engineVars, auxVars>>

SimpleExists ==
    \E k \in Keys :
        SimpleStorage_exists(k) /\ UNCHANGED <<now, engineVars, auxVars, contract>>

SimpleExpire ==
    \E k \in Keys, ttl \in TtlArgs :
        /\ SimpleStorage_expire(k, ttl)
        /\ Contract_expire(k, ttl)
        /\ UNCHANGED <<now, engineVars, auxVars>>

SimpleTtl ==
    \E k \in Keys :
        SimpleStorage_ttl(k) /\ UNCHANGED <<now, engineVars, auxVars, contract>>

SimpleKeys ==
    \E p \in Patterns :
        SimpleStorage_keys(p) /\ UNCHANGED <<now, engineVars, auxVars, contract>>

SimpleCleanup ==
    SimpleStorage_cleanupExpiredEntries /\ UNCHANGED <<now, engineVars, auxVars, contract>>

SimpleMget ==
    \E keys \in KeyLists :
        SimpleStorage_mget(keys) /\ UNCHANGED <<now, engineVars, auxVars, contract>>

SimpleInfo ==
    SimpleStorage_info /\ UNCHANGED <<now, engineVars, auxVars, contract>>

SimpleNext ==
    \/ SimpleSet
    \/ SimpleGet
    \/ SimpleDel
    \/ SimpleExists
    \/ SimpleExpire
    \/ SimpleTtl
    \/ SimpleKeys
    \/ SimpleCleanup
    \/ SimpleMget
    \/ SimpleInfo
    \/ Tick

SimpleSpec == Init /\ [][SimpleNext]_vars

----------------------------------------------------------------------------
(* The worker's executeCommand over StorageEngine: one command at a time *)

EngineSet ==
    \E k \in Keys, v \in Values, ttl \in TtlArgs \cup {NoTtl} :
        /\ StorageEngine_set(k, v, ttl)
        /\ Contract_set(k, v, ttl)
        /\ UNCHANGED <<now, simpleVars, auxVars>>

EngineGet ==
    \E k \in Keys :
        StorageEngine_get(k) /\ UNCHANGED <<now, simpleVars, auxVars, contract>>

EngineDel ==
    \E k \in Keys :
        /\ StorageEngine_del(k)
        /\ Contract_del(k)
        /\ UNCHANGED <<now, simpleVars, auxVars>>

EngineExists ==
    \E k \in Keys :
        StorageEngine_exists(k) /\ UNCHANGED <<now, simpleVars, auxVars, contract>>

EngineExpire ==
    \E k \in Keys, ttl \in TtlArgs :
        /\ StorageEngine_expire(k, ttl)
        /\ Contract_expire(k, ttl)
        /\ UNCHANGED <<now, simpleVars, auxVars>>

(* ttl() and keys() read the engine and change nothing *)
EngineTtl == \E k \in Keys : UNCHANGED vars

EngineKeys == \E p \in Patterns : UNCHANGED vars

(* info() reads the engine and changes nothing *)
EngineInfo == UNCHANGED vars

EngineNext ==
    \/ EngineSet
    \/ EngineGet
    \/ EngineDel
    \/ EngineExists
    \/ EngineExpire
    \/ EngineTtl
    \/ EngineKeys
    \/ EngineInfo
    \/ Tick

EngineSpec == Init /\ [][EngineNext]_vars

----------------------------------------------------------------------------
(* The pattern matchers alone, over every short pattern and key *)

MaxPatternLen == 2
MaxKeyLen == 2

PatternChars == { "a", "b", ".", "*", "?" }
KeyChars == { "a", "b", "." }

SeqsUpTo(chars, n) == UNION { [1..m -> chars] : m \in 1..n }

PatternInit ==
    /\ now = 0
    /\ sData = EmptyMap
    /\ sTtl = EmptyMap
    /\ memtable = [data |-> EmptyMap, sizeBytes |-> 0]
    /\ wal = <<>>
    /\ sstables = [level \in 0..6 |-> <<>>]
    /\ compactionStats = <<>>
    /\ scheduled = 0
    /\ compactionInProgress = FALSE
    /\ contract = EmptyMap
    /\ calls = <<>>
    /\ flushed = FALSE
    /\ client = NewSnapDB
    /\ port = NoMessages
    /\ worker = NewWorker
    /\ bloomFilter = NoFilter
    /\ snapshots = EmptyMap
    /\ file = NoFile
    /\ matcher \in { [pattern |-> p, key |-> k, selects |-> NotAsked] :
                        p \in SeqsUpTo(PatternChars, MaxPatternLen),
                        k \in SeqsUpTo(KeyChars, MaxKeyLen) }

(* does the KEYS of an implementation select key k under the pattern?     *)
(* "throws" when the RegExp constructor rejects the translated pattern     *)
KeysSelects(which, pattern, k) ==
    CASE which = "SimpleStorage" ->
            IF ~RegexValid(simplePatternRegex(pattern)) THEN "throws"
            ELSE IF SimpleKeyMatches(pattern, k) THEN "yes" ELSE "no"
      [] which = "StorageEngine" ->
            IF ~RegexValid(enginePatternRegex(pattern)) THEN "throws"
            ELSE IF EngineKeyMatches(pattern, k) THEN "yes" ELSE "no"
      [] OTHER ->
            IF MemtableKeyMatches(pattern, k) THEN "yes" ELSE "no"

PatternTest ==
    /\ matcher.selects = NotAsked
    /\ matcher' = [matcher EXCEPT
                     !.selects = [w \in KeysImplementations |->
                                     KeysSelects(w, matcher.pattern, matcher.key)]]
    /\ UNCHANGED <<now, simpleVars, engineVars, calls, flushed, linkVars, pluginVars, contract>>

PatternNext == PatternTest

PatternSpec == PatternInit /\ [][PatternNext]_vars

----------------------------------------------------------------------------
(* Counters through the worker: SET of numbers and numeric strings, INCR *)
(* and DECR                                                               *)

CounterValues == { Num(1), Str(<<"1", "0">>), Str(<<"x">>) }

CounterSet ==
    \E k \in Keys, v \in CounterValues, ttl \in TtlArgs \cup {NoTtl} :
        /\ StorageEngine_set(k, v, ttl)
        /\ Contract_set(k, v, ttl)
        /\ UNCHANGED <<now, simpleVars, auxVars>>

WorkerIncr ==
    \E k \in Keys :
        /\ Worker_incr(k, 1)
        /\ Contract_incr(k, 1)
        /\ UNCHANGED <<now, simpleVars, auxVars>>

WorkerDecr ==
    \E k \in Keys :
        /\ Worker_incr(k, -1)
        /\ Contract_incr(k, -1)
        /\ UNCHANGED <<now, simpleVars, auxVars>>

CounterNext ==
    \/ CounterSet
    \/ WorkerIncr
    \/ WorkerDecr
    \/ Tick

CounterSpec == Init /\ [][CounterNext]_vars

----------------------------------------------------------------------------
(* SimpleSnapDB.incr / decr started without awaiting one another.  A call *)
(* runs get() when it is started and suspends at `await this.get(key)`;   *)
(* the suspended calls resume in the order they were started and then run *)
(* set().                                                                 *)

(* incr()/decr() up to its first await: get(key), numValue *)
SimpleStorage_incrRead(k, by) ==
    /\ Len(calls) < MaxCalls
    /\ calls' = Append(calls, [ key      |-> k,
                                by       |-> by,
                                numValue |-> SimpleStorage_numValue(SimpleStorage_getResult(k)) ])
    /\ SimpleStorage_get(k)

(* incr()/decr() resumed: set(key, numValue + 1) or set(key, numValue - 1) *)
SimpleStorage_incrWrite ==
    /\ calls # <<>>
    /\ SimpleStorage_set(Head(calls).key, Num(Head(calls).numValue + Head(calls).by), NoTtl)
    /\ calls' = Tail(calls)

RaceSet ==
    \E k \in Keys, v \in CounterValues :
        /\ calls = <<>>
        /\ SimpleStorage_set(k, v, NoTtl)
        /\ Contract_set(k, v, NoTtl)
        /\ UNCHANGED <<now, engineVars, pluginVars, matcher, calls, flushed, linkVars>>

RaceIncrRead ==
    \E k \in Keys, by \in {1, -1} :
        /\ SimpleStorage_incrRead(k, by)
        /\ Contract_incr(k, by)
        /\ UNCHANGED <<now, engineVars, matcher, flushed, linkVars, pluginVars>>

RaceIncrWrite ==
    /\ SimpleStorage_incrWrite
    /\ UNCHANGED <<now, engineVars, matcher, flushed, linkVars, pluginVars, contract>>

RaceNext ==
    \/ RaceSet
    \/ RaceIncrRead
    \/ RaceIncrWrite

RaceSpec == Init /\ [][RaceNext]_vars

----------------------------------------------------------------------------
(* The events of SimpleSnapDB.  set() and del() run the storage call when  *)
(* they are started and suspend at its await; the suspended calls resume   *)
(* in the order they were started and then emit their event, whose         *)
(* listeners run within emit().                                            *)

(* set() up to `await this.storage.set(key, value, ttl)` *)
SimpleSnapDB_setStart(k, v, ttl) ==
    /\ Len(calls) < MaxCalls
    /\ SimpleStorage_set(k, v, ttl)
    /\ calls' = Append(calls, [command |-> "SET", key |-> k, value |-> v, deleted |-> FALSE])

(* del() up to `await this.storage.del(key)` *)
SimpleSnapDB_delStart(k) ==
    /\ Len(calls) < MaxCalls
    /\ SimpleStorage_del(k)
    /\ calls' = Append(calls, [ command |-> "DEL", key |-> k, value |-> Null,
                                deleted |-> SimpleStorage_delResult(k) ])

(* the call resumed: emit('set', {key, value, ttl}) or                     *)
(* emit('del', {key, deleted: result}); a listener that calls get(key)     *)
(* runs storage.get(key) before emit() returns                             *)
SimpleSnapDB_emit ==
    /\ calls # <<>>
    /\ calls' = Tail(calls)
    /\ IF Head(calls).command = "SET"
       THEN SimpleStorage_get(Head(calls).key)
       ELSE UNCHANGED simpleVars

EventSet ==
    \E k \in Keys, v \in Values :
        /\ SimpleSnapDB_setStart(k, v, NoTtl)
        /\ Contract_set(k, v, NoTtl)
        /\ UNCHANGED <<now, engineVars, matcher, flushed, linkVars, pluginVars>>

EventDel ==
    \E k \in Keys :
        /\ SimpleSnapDB_delStart(k)
        /\ Contract_del(k)
        /\ UNCHANGED <<now, engineVars, matcher, flushed, linkVars, pluginVars>>

EventEmit ==
    /\ SimpleSnapDB_emit
    /\ UNCHANGED <<now, engineVars, matcher, flushed, linkVars, pluginVars, contract>>

EventNext ==
    \/ EventSet
    \/ EventDel
    \/ EventEmit

EventSpec == Init /\ [][EventNext]_vars

----------------------------------------------------------------------------
(* MGET and MSET through the worker-backed client *)

BatchSet ==
    \E k \in Keys, v \in Values, ttl \in {NoTtl, 1000} :
        /\ StorageEngine_set(k, v, ttl)
        /\ Contract_set(k, v, ttl)
        /\ UNCHANGED <<now, simpleVars, auxVars>>

WorkerMget == \E keys \in KeyLists : UNCHANGED vars

WorkerMset ==
    \E entries \in EntryLists :
        /\ Worker_mset(SnapDB_msetArgs(entries))
        /\ Contract_mset(entries)
        /\ UNCHANGED <<now, simpleVars, auxVars>>

BatchNext ==
    \/ BatchSet
    \/ WorkerMget
    \/ WorkerMset
    \/ Tick

BatchSpec == Init /\ [][BatchNext]_vars

----------------------------------------------------------------------------
(* FLUSHALL, with the compaction that a flush hands to setImmediate and    *)
(* the one the interval timer starts, on the worker's engine.              *)

FlushSet ==
    \E k \in Keys, ttl \in {1000} :
        /\ StorageEngine_setWithin(k, Str(<<"v", "1">>), ttl, MaxFlushes)
        /\ Contract_set(k, Str(<<"v", "1">>), ttl)
        /\ flushed' = FALSE
        /\ UNCHANGED <<now, simpleVars, pluginVars, matcher, calls, linkVars>>

FlushGet ==
    \E k \in Keys :
        /\ StorageEngine_get(k)
        /\ UNCHANGED <<now, simpleVars, auxVars, contract>>

Flushall ==
    /\ StorageEngine_flushall
    /\ contract' = EmptyMap
    /\ flushed' = TRUE
    /\ UNCHANGED <<now, simpleVars, pluginVars, matcher, calls, linkVars>>

(* the callback of setImmediate(() => this.triggerCompaction()) *)
ScheduledCompaction ==
    /\ scheduled > 0
    /\ scheduled' = scheduled - 1
    /\ StorageEngine_triggerCompaction
    /\ UNCHANGED <<now, simpleVars, auxVars, contract>>

(* the callback of the interval timer of startPeriodicCompaction() *)
PeriodicCompaction ==
    /\ StorageEngine_triggerCompaction
    /\ UNCHANGED <<now, scheduled, simpleVars, auxVars, contract>>

FlushallNext ==
    \/ FlushSet
    \/ FlushGet
    \/ Flushall
    \/ ScheduledCompaction
    \/ PeriodicCompaction
    \/ Tick

FlushallSpec == Init /\ [][FlushallNext]_vars

----------------------------------------------------------------------------
(* CompactionEngine over the tables that memtable flushes produce: the     *)
(* caller hands every table it holds to compact() and keeps the tables     *)
(* returned, level by level.  A value of null is what the stores treat as  *)
(* a tombstone.  The commands and the merges fall within one millisecond,  *)
(* and the history of the commands is not kept here.                       *)

CompactorValues == { Str(<<"v", "1">>), Null }

(* the tables held, level 0 first *)
AllTables == sstables[0] \o sstables[1] \o sstables[2] \o sstables[3]
             \o sstables[4] \o sstables[5] \o sstables[6]

CompactorSet ==
    \E k \in Keys, v \in CompactorValues, ttl \in {1000} :
        /\ StorageEngine_setBounded(k, v, ttl, MaxInputs, MaxBatch)
        /\ UNCHANGED <<now, simpleVars, auxVars, contract>>

CompactorCompact ==
    LET done == CompactionEngine_compact(AllTables, now)
    IN  /\ done.compacted # <<>>
        /\ Len(compactionStats) + Len(done.compacted) <= MaxMerges
        /\ sstables' = [level \in 0..6 |-> TablesAt(done.sstables, level)]
        /\ compactionStats' = compactionStats \o [i \in 1..Len(done.compacted) |->
                                   [ level       |-> done.compacted[i],
                                     inputFiles  |-> Len(sstables[done.compacted[i]]),
                                     outputFiles |-> 1 ]]
        /\ UNCHANGED <<now, memtable, wal, scheduled, compactionInProgress,
                       simpleVars, auxVars, contract>>

CompactorNext ==
    \/ CompactorSet
    \/ CompactorCompact

CompactorSpec == Init /\ [][CompactorNext]_vars

----------------------------------------------------------------------------
(* triggerCompaction() step by step.  The callback of setImmediate or of   *)
(* the interval timer runs triggerCompaction() up to `await                *)
(* this.compact()`: compact() awaits nothing, so it has run to its end,    *)
(* or thrown, when the callback returns.  The rest of triggerCompaction(), *)
(* its finally block, is a promise continuation.                           *)

(* a callback or a message handler starts in any phase of the event loop *)
InAnyPhase == TRUE

(* a callback or a message handler starts when no promise continuation is *)
(* pending: the continuation of triggerCompaction() is pending from the    *)
(* moment the flag is set until the finally block has reset it             *)
NoContinuationPending == ~compactionInProgress

(* compact() when SSTable.merge throws at the first level that has enough *)
(* tables: tables.splice(0, n) has taken the inputs out of the array the   *)
(* Map holds for the level, and nothing was set for the next level         *)
RECURSIVE compactThrows(_, _)
compactThrows(tables, level) ==
    LET maxTablesAtLevel == IF level = 0 THEN 4 ELSE Pow10(level)
        here == tables[level]
    IN  IF level >= 6 THEN tables
        ELSE IF Len(here) < maxTablesAtLevel THEN compactThrows(tables, level + 1)
        ELSE [tables EXCEPT ![level] =
                 SubSeq(here, Min(Len(here), maxTablesAtLevel) + 1, Len(here))]

(* does compact() reach a merge? *)
compactMerges(tables) ==
    \E level \in 0..5 :
        Len(tables[level]) >= (IF level = 0 THEN 4 ELSE Pow10(level))

(* triggerCompaction() up to its await; `throws` says whether the merge    *)
(* throws, which only a compact() that reaches a merge can do              *)
StorageEngine_triggerCompactionStart(throws) ==
    IF compactionInProgress
    THEN /\ ~throws
         /\ UNCHANGED <<memtable, wal, sstables, compactionStats, compactionInProgress>>
    ELSE /\ throws => compactMerges(sstables)
         /\ compactionInProgress' = TRUE
         /\ IF throws
            THEN /\ sstables' = compactThrows(sstables, 0)
                 /\ UNCHANGED compactionStats
            ELSE LET done == compact(sstables, compactionStats, 0, now)
                 IN  /\ sstables' = done.sstables
                     /\ compactionStats' = done.compactionStats
         /\ UNCHANGED <<memtable, wal>>

(* `finally { this.compactionInProgress = false }` *)
StorageEngine_triggerCompactionEnd ==
    /\ compactionInProgress
    /\ compactionInProgress' = FALSE
    /\ UNCHANGED <<memtable, wal, sstables, compactionStats, scheduled>>

(* a SET handled by the worker; the commands and the callbacks fall       *)
(* within one millisecond                                                  *)
CompactionSet ==
    \E k \in Keys, ttl \in {1000} :
        /\ NoContinuationPending
        /\ StorageEngine_setWithin(k, Str(<<"v", "1">>), ttl, MaxFlushes)
        /\ Contract_set(k, Str(<<"v", "1">>), ttl)
        /\ UNCHANGED <<now, simpleVars, auxVars>>

(* the callback of setImmediate(() => this.triggerCompaction()) *)
CompactionScheduled ==
    \E throws \in BOOLEAN :
        /\ NoContinuationPending
        /\ scheduled > 0
        /\ scheduled' = scheduled - 1
        /\ StorageEngine_triggerCompactionStart(throws)
        /\ UNCHANGED <<now, simpleVars, auxVars, contract>>

(* the callback of the interval timer: `if (!this.compactionInProgress)`   *)
(* it calls triggerCompaction()                                            *)
CompactionPeriodic ==
    \E throws \in BOOLEAN :
        /\ NoContinuationPending
        /\ StorageEngine_triggerCompactionStart(throws)
        /\ UNCHANGED <<now, scheduled, simpleVars, auxVars, contract>>

CompactionEnd ==
    /\ StorageEngine_triggerCompactionEnd
    /\ UNCHANGED <<now, simpleVars, auxVars, contract>>

CompactionNext ==
    \/ CompactionSet
    \/ CompactionScheduled
    \/ CompactionPeriodic
    \/ CompactionEnd

CompactionSpec == Init /\ [][CompactionNext]_vars

(* The same engine started with level 1 empty or one table short of its    *)
(* threshold of ten: nine tables of earlier compactions whose keys lie     *)
(* after the keys written here, so that the table merged from level 0      *)
(* overlaps none of them.  The callback of setImmediate runs in the check  *)
(* phase of the event loop and the continuation of triggerCompaction as    *)
(* soon as the stack is empty: both are taken when they stay possible.     *)
LevelKeys ==
    << <<"b">>, <<"b", "a">>, <<"b", "a", "a">>, <<"b", "a", "b">>, <<"b", "b">>,
       <<"b", "b", "a">>, <<"b", "b", "a", "a">>, <<"b", "b", "b">>, <<"b", "b", "b", "b">> >>

LevelTables ==
    [ i \in 1..Len(LevelKeys) |->
        NewSSTable(1, << NewEntry(EmptyMap, LevelKeys[i], Str(<<"v", "1">>), NoTtl, 0) >>, 0) ]

LevelInit ==
    /\ now = 0
    /\ sData = EmptyMap
    /\ sTtl = EmptyMap
    /\ memtable = [data |-> EmptyMap, sizeBytes |-> 0]
    /\ wal = <<>>
    /\ \E below \in { <<>>, LevelTables } :
          sstables = [level \in 0..6 |-> IF level = 1 THEN below ELSE <<>>]
    /\ compactionStats = <<>>
    /\ scheduled = 0
    /\ compactionInProgress = FALSE
    /\ matcher = NoMatcher
    /\ calls = <<>>
    /\ flushed = FALSE
    /\ client = NewSnapDB
    /\ port = NoMessages
    /\ worker = NewWorker
    /\ bloomFilter = NoFilter
    /\ snapshots = EmptyMap
    /\ file = NoFile
    /\ contract = EmptyMap

(* the callback of setImmediate can start: ENABLED CompactionScheduled *)
CallbackDue == NoContinuationPending /\ scheduled > 0

(* weak fairness of the continuation, and of the callback with its         *)
(* enabling condition written out                                          *)
CompactionLiveSpec ==
    /\ LevelInit
    /\ [][CompactionNext]_vars
    /\ WF_vars(CompactionEnd)
    /\ ([]<>(~CallbackDue) \/ []<><<CompactionScheduled>>_vars)

----------------------------------------------------------------------------
(* Write commands of the engine that fail: the call made after            *)
(* wal.append() throws, or the flush that a SET triggers throws.  The      *)
(* catch block of the command logs and throws a StorageError.              *)

WriteOps == { "SET", "DEL", "EXPIRE" }

(* set(), del() or expire() when the memtable call throws *)
StorageEngine_writeThrows(op) ==
    /\ Len(wal) < MaxWal
    /\ wal' = WAL_append(wal, op)
    /\ UNCHANGED <<memtable, sstables, compactionStats, scheduled, compactionInProgress>>

(* set() when flushMemtable() throws before it has pushed the new table *)
StorageEngine_setFlushThrows(k, v, ttl) ==
    LET mem == Memtable_set(memtable, k, v, ttl, now)
    IN  /\ Len(wal) < MaxWal
        /\ Memtable_shouldFlush(mem)
        /\ wal' = WAL_append(wal, "SET")
        /\ memtable' = mem
        /\ UNCHANGED <<sstables, compactionStats, scheduled, compactionInProgress>>

FailWrite ==
    \E op \in WriteOps :
        /\ StorageEngine_writeThrows(op)
        /\ UNCHANGED <<now, simpleVars, auxVars, contract>>

FailFlush ==
    \E k \in Keys, v \in Values, ttl \in TtlArgs \cup {NoTtl} :
        /\ StorageEngine_setFlushThrows(k, v, ttl)
        /\ UNCHANGED <<now, simpleVars, auxVars, contract>>

(* the memtable is filled by SETs that succeed; every DEL and EXPIRE here  *)
(* is one that fails                                                       *)
FailNext ==
    \/ EngineSet
    \/ EngineGet
    \/ FailWrite
    \/ FailFlush
    \/ Tick

FailSpec == Init /\ [][FailNext]_vars

----------------------------------------------------------------------------
(* The WAL under the commands that mutate the memtable, with the flushes   *)
(* of SET and with FLUSHALL; the records do not depend on the clock        *)

WalNext ==
    \/ EngineSet
    \/ EngineGet
    \/ EngineDel
    \/ EngineExpire
    \/ WorkerIncr
    \/ WorkerDecr
    \/ Flushall

WalSpec == Init /\ [][WalNext]_vars

----------------------------------------------------------------------------
(* The memtable on its own: set, get, getEntry, delete and clear, with     *)
(* values that JSON.stringify serializes and one that it rejects           *)

BigInt(n) == JsValue("bigint", n, <<>>)

(* JSON.stringify throws a TypeError for a BigInt *)
Serializable(value) == value.type # "bigint"

(* set(key, value, ttl) with a value whose calculateSize throws: the size  *)
(* of the entry replaced was subtracted and the new entry is in the map    *)
(* when the SerializationError leaves set()                                *)
Memtable_setThrows(mem, k, v, ttl, t) ==
    LET entry == NewEntry(mem.data, k, v, ttl, t)
        freed == IF MapHas(mem.data, k) THEN calculateEntrySize(mem.data[k]) ELSE 0
    IN  [ data      |-> MapSet(mem.data, k, entry),
          sizeBytes |-> mem.sizeBytes - freed ]

(* the size of the entry held for k cannot be calculated *)
HoldsUnserializable(mem, k) == MapHas(mem.data, k) /\ ~Serializable(mem.data[k].value)

(* set(): the subtraction for the entry replaced throws before anything    *)
(* is changed; the addition for the new entry throws after data.set        *)
Memtable_setAny(mem, k, v, ttl, t) ==
    IF HoldsUnserializable(mem, k) THEN mem
    ELSE IF Serializable(v) THEN Memtable_set(mem, k, v, ttl, t)
    ELSE Memtable_setThrows(mem, k, v, ttl, t)

(* get() and getEntry(): an expired entry is deleted from the map before   *)
(* its size is calculated                                                  *)
Memtable_getAny(mem, k, t) ==
    IF HoldsUnserializable(mem, k) /\ EntryExpired(mem.data[k], t)
    THEN [data |-> MapDelete(mem.data, k), sizeBytes |-> mem.sizeBytes]
    ELSE Memtable_get(mem, k, t).mem

(* delete(): the size is calculated before the entry is deleted *)
Memtable_deleteAny(mem, k) ==
    IF HoldsUnserializable(mem, k) THEN mem ELSE Memtable_delete(mem, k).mem

MemtableValues == Values \cup { BigInt(1) }

MemtableSet ==
    \E k \in Keys, v \in MemtableValues, ttl \in TtlArgs \cup {NoTtl} :
        /\ NewEntry(memtable.data, k, v, ttl, now).version <= MaxVersion
        /\ memtable' = Memtable_setAny(memtable, k, v, ttl, now)
        /\ UNCHANGED <<now, simpleVars, wal, sstables, compactionStats, scheduled,
                       compactionInProgress, auxVars, contract>>

(* get(key) and getEntry(key) remove an expired entry alike *)
MemtableGet ==
    \E k \in Keys :
        /\ memtable' = Memtable_getAny(memtable, k, now)
        /\ UNCHANGED <<now, simpleVars, wal, sstables, compactionStats, scheduled,
                       compactionInProgress, auxVars, contract>>

MemtableDelete ==
    \E k \in Keys :
        /\ memtable' = Memtable_deleteAny(memtable, k)
        /\ UNCHANGED <<now, simpleVars, wal, sstables, compactionStats, scheduled,
                       compactionInProgress, auxVars, contract>>

MemtableClear ==
    /\ memtable' = Memtable_clear
    /\ UNCHANGED <<now, simpleVars, wal, sstables, compactionStats, scheduled,
                   compactionInProgress, auxVars, contract>>

MemtableNext ==
    \/ MemtableSet
    \/ MemtableGet
    \/ MemtableDelete
    \/ MemtableClear
    \/ Tick

MemtableSpec == Init /\ [][MemtableNext]_vars

----------------------------------------------------------------------------
(* BloomFilter: the hashes of a key, add and contains.  A 32-bit integer   *)
(* is held as two 16-bit halves [hi, lo], so that no product leaves the    *)
(* range of the numbers at hand.                                           *)

MaxFilterSize == 12 \* the sizes a BloomFilter is constructed with, 1..MaxFilterSize
numHashes == 3

(* str.charCodeAt(i) *)
charCodeAt(c) ==
    CASE c = "\"" -> 34 [] c = "a" -> 97 [] c = "b" -> 98 [] c = "l" -> 108
      [] c = "s" -> 115 [] c = "t" -> 116 [] OTHER -> 63

(* serializer.serialize(key): JSON.stringify of a string of plain letters *)
SerializeKey(k) == <<"\"">> \o k \o <<"\"">>

(* hash = ((hash << 5) - hash) + char; hash = hash & hash *)
HashStep(h, c) ==
    LET lo == h.lo * 31 + c
    IN  [hi |-> (h.hi * 31 + lo \div 65536) % 65536, lo |-> lo % 65536]

RECURSIVE HashFrom(_, _)
HashFrom(h, str) ==
    IF str = <<>> THEN h ELSE HashFrom(HashStep(h, charCodeAt(Head(str))), Tail(str))

(* Math.abs(hash) % m for the signed 32-bit integer h, and 2^32 % m *)
AbsModulo(h, m) ==
    LET unsigned == ((h.hi % m) * (65536 % m) + h.lo) % m
        pow32 == ((65536 % m) * (65536 % m)) % m
    IN  IF h.hi >= 32768 THEN (pow32 - unsigned) % m ELSE unsigned

(* hash(str), reduced modulo m *)
BloomFilter_hash(str, m) == AbsModulo(HashFrom([hi |-> 0, lo |-> 0], str), m)

(* getHashes(key) with `hash % this.size` applied: the indexes of a key *)
BloomFilter_indexes(key, m) ==
    LET hash1 == BloomFilter_hash(key, m)
        hash2 == BloomFilter_hash(key \o <<"s", "a", "l", "t">>, m)
    IN  { (hash1 + i * hash2) % m : i \in 0..(numHashes - 1) }

(* the byte and the bit of an index *)
BitOf(index) == <<index \div 8, index % 8>>

(* an add() that sets no bit *)
BloomFilter_keepBits(bits, index) == bits

(* this.bits[byteIndex] |= (1 << bitIndex) *)
BloomFilter_setBit(bits, index) == bits \cup { BitOf(index) }

RECURSIVE BloomFilter_setBits(_, _)
BloomFilter_setBits(bits, indexes) ==
    IF indexes = {} THEN bits
    ELSE LET index == CHOOSE i \in indexes : TRUE
         IN  BloomFilter_setBits(BloomFilter_setBit(bits, index), indexes \ {index})

(* new BloomFilter(size) *)
NewBloomFilter(size) == [size |-> size, bits |-> {}, added |-> {}]

(* add(key); `added` records the keys for the properties *)
BloomFilter_add(filter, key) ==
    [ size  |-> filter.size,
      bits  |-> BloomFilter_setBits(filter.bits, BloomFilter_indexes(SerializeKey(key), filter.size)),
      added |-> filter.added \cup {key} ]

(* contains(key) *)
BloomFilter_containsKey(filter, key) ==
    \A index \in BloomFilter_indexes(SerializeKey(key), filter.size) :
        BitOf(index) \in filter.bits

(* SSTable.get(key) of a run holding the keys added, with the filter of    *)
(* the run consulted or not: whether the run answers with its entry        *)
SSTable_answers(filter, key, consulted) ==
    IF consulted /\ ~BloomFilter_containsKey(filter, key) THEN FALSE
    ELSE key \in filter.added

BloomKeys == SeqsUpTo({"a", "b"}, MaxKeyLen)

BloomNew ==
    \E size \in 1..MaxFilterSize :
        /\ bloomFilter' = NewBloomFilter(size)
        /\ UNCHANGED <<now, simpleVars, engineVars, matcher, calls, flushed, linkVars,
                       snapshots, file, contract>>

BloomAdd ==
    \E key \in BloomKeys :
        /\ bloomFilter.size >= 1
        /\ bloomFilter' = BloomFilter_add(bloomFilter, key)
        /\ UNCHANGED <<now, simpleVars, engineVars, matcher, calls, flushed, linkVars,
                       snapshots, file, contract>>

BloomNext ==
    \/ BloomNew
    \/ BloomAdd

BloomSpec == Init /\ [][BloomNext]_vars

----------------------------------------------------------------------------
(* The engine with keys in both cases: runs sorted by localeCompare and    *)
(* searched by <                                                           *)

OrderKeys == { <<"a">>, <<"B">>, <<"a", "b">> }

OrderSet ==
    \E k \in OrderKeys, ttl \in {NoTtl, 1000} :
        /\ StorageEngine_set(k, Str(<<"v", "1">>), ttl)
        /\ UNCHANGED <<now, simpleVars, auxVars, contract>>

OrderGet ==
    \E k \in OrderKeys :
        StorageEngine_get(k) /\ UNCHANGED <<now, simpleVars, auxVars, contract>>

OrderNext ==
    \/ OrderSet
    \/ OrderGet
    \/ Tick

OrderSpec == Init /\ [][OrderNext]_vars

----------------------------------------------------------------------------
(* SnapshotPlugin registered with a SimpleSnapDB: createSnapshot reads the *)
(* store with keys(), get() and ttl(); restoreSnapshot calls flushall()    *)
(* and set() for every entry of the snapshot                               *)

SnapshotNames == { "backup1" }

(* a flushall() that clears nothing *)
SimpleStorage_flushNothing == [data |-> sData, ttlData |-> sTtl]

(* flushall(): data.clear(); ttlData.clear() *)
SimpleStorage_flushall == [data |-> EmptyMap, ttlData |-> EmptyMap]

(* the keys createSnapshot collects: those keys() returns whose get() is   *)
(* not null                                                                *)
SnapshotPlugin_collected ==
    { k \in SimpleStorage_keysResult(<<>>) : SimpleStorage_getResult(k) # Null }

(* the ttl createSnapshot stores for a key: `ttl > 0 ? ttl * 1000 :        *)
(* undefined` of the seconds ttl() answers                                 *)
SnapshotPlugin_ttlOf(k) ==
    IF SimpleStorage_ttlResult(k) > 0 THEN SimpleStorage_ttlResult(k) * 1000 ELSE NoTtl

(* createSnapshot(name).  keys() removes the expired entries and ttl()     *)
(* removes an entry whose remaining time is 0.  `live` and `noExpiry` are  *)
(* history: what GET answered for every key and which live keys had no     *)
(* expiry when the snapshot was taken; `restored` tells that it was        *)
(* restored since.                                                         *)
SnapshotPlugin_createSnapshot(name) ==
    LET expired == { k \in DOMAIN sData : SimpleExpired(k) }
        atEnd   == { k \in SnapshotPlugin_collected :
                        MapHas(sTtl, k) /\ sTtl[k] - now <= 0 }
    IN  /\ snapshots' = MapSet(snapshots, name,
               [ timestamp |-> now,
                 data      |-> [ k \in SnapshotPlugin_collected |->
                                   [ value |-> SimpleStorage_getResult(k),
                                     ttl   |-> SnapshotPlugin_ttlOf(k) ] ],
                 live      |-> [ k \in Keys |-> SimpleStorage_getResult(k) ],
                 noExpiry  |-> { k \in Keys : SimpleStorage_getResult(k) # Null
                                                /\ ~MapHas(sTtl, k) },
                 restored  |-> FALSE ])
        /\ SimplePurge(expired \cup atEnd)

(* restoreSnapshot(name): flushall(), then set(key, value, ttl) for every  *)
(* entry; the keys of a snapshot are distinct, so every set() writes       *)
(* version 1                                                               *)
SnapshotPlugin_restoreSnapshot(name) ==
    /\ MapHas(snapshots, name)
    /\ LET entries == snapshots[name].data
            cleared == SimpleStorage_flushall
            written == { k \in DOMAIN entries : entries[k].ttl # NoTtl }
       IN  /\ sData' = [ k \in (DOMAIN cleared.data) \cup (DOMAIN entries) |->
                           IF k \in DOMAIN entries
                           THEN NewEntry(cleared.data, k, entries[k].value, entries[k].ttl, now)
                           ELSE cleared.data[k] ]
           /\ sTtl' = [ k \in (DOMAIN cleared.ttlData) \cup written |->
                           IF k \in written THEN now + entries[k].ttl
                           ELSE cleared.ttlData[k] ]
    /\ snapshots' = [snapshots EXCEPT ![name].restored = TRUE]

SnapshotSet ==
    \E k \in Keys, v \in Values, ttl \in {NoTtl, 1000} :
        /\ SimpleStorage_set(k, v, ttl)
        /\ UNCHANGED <<now, engineVars, matcher, calls, flushed, linkVars,
                       pluginVars, contract>>

SnapshotDel ==
    \E k \in Keys :
        /\ SimpleStorage_del(k)
        /\ UNCHANGED <<now, engineVars, matcher, calls, flushed, linkVars,
                       pluginVars, contract>>

SnapshotFlushall ==
    /\ sData' = SimpleStorage_flushall.data
    /\ sTtl' = SimpleStorage_flushall.ttlData
    /\ UNCHANGED <<now, engineVars, matcher, calls, flushed, linkVars,
                   pluginVars, contract>>

SnapshotCreate ==
    \E name \in SnapshotNames :
        /\ SnapshotPlugin_createSnapshot(name)
        /\ UNCHANGED <<now, engineVars, matcher, calls, flushed, linkVars,
                       bloomFilter, file, contract>>

SnapshotRestore ==
    \E name \in SnapshotNames :
        /\ SnapshotPlugin_restoreSnapshot(name)
        /\ UNCHANGED <<now, engineVars, matcher, calls, flushed, linkVars,
                       bloomFilter, file, contract>>

SnapshotNext ==
    \/ SnapshotSet
    \/ SnapshotDel
    \/ SnapshotFlushall
    \/ SnapshotCreate
    \/ SnapshotRestore
    \/ Tick

SnapshotSpec == Init /\ [][SnapshotNext]_vars

----------------------------------------------------------------------------
(* PersistencePlugin registered with a SimpleSnapDB: save() writes the     *)
(* entries it collects as createSnapshot does, with the time of the save;  *)
(* load() reads the file, calls flushall() and set() for the entries that  *)
(* have not expired                                                        *)

(* save().  `expiry` is history: the expiry each saved key had in the      *)
(* store.  keys() and ttl() remove entries as they do in createSnapshot.   *)
PersistencePlugin_save ==
    LET expired == { k \in DOMAIN sData : SimpleExpired(k) }
        atEnd   == { k \in SnapshotPlugin_collected :
                        MapHas(sTtl, k) /\ sTtl[k] - now <= 0 }
    IN  /\ file' = [ written   |-> TRUE,
                     timestamp |-> now,
                     entries   |-> [ k \in SnapshotPlugin_collected |->
                                       [ value |-> SimpleStorage_getResult(k),
                                         ttl   |-> SnapshotPlugin_ttlOf(k) ] ],
                     expiry    |-> [ k \in SnapshotPlugin_collected \cap DOMAIN sTtl |->
                                       sTtl[k] ] ]
        /\ SimplePurge(expired \cup atEnd)

(* the ttl load() hands to set() for an entry saved with a ttl:            *)
(* Math.ceil((expiresAt - now) / 1000)                                     *)
PersistencePlugin_adjustedTtl(entry) ==
    CeilSeconds(file.timestamp + entry.ttl - now)

(* load(): an entry whose `saveData.timestamp + entry.ttl` lies before now *)
(* is skipped; set() takes a ttl of 0 for no ttl                           *)
PersistencePlugin_load ==
    /\ file.written
    /\ LET kept == { k \in DOMAIN file.entries :
                       file.entries[k].ttl # NoTtl
                          => ~(file.timestamp + file.entries[k].ttl < now) }
            ttlOf(k) == IF file.entries[k].ttl # NoTtl
                        THEN PersistencePlugin_adjustedTtl(file.entries[k]) ELSE NoTtl
            timed == { k \in kept : ttlOf(k) # NoTtl }
       IN  /\ sData' = [ k \in kept |->
                           NewEntry(EmptyMap, k, file.entries[k].value, ttlOf(k), now) ]
           /\ sTtl' = [ k \in timed |-> now + ttlOf(k) ]

PersistSet ==
    \E k \in Keys, ttl \in TtlArgs \cup {NoTtl} :
        /\ SimpleStorage_set(k, Str(<<"v", "1">>), ttl)
        /\ UNCHANGED <<now, engineVars, matcher, calls, flushed, linkVars,
                       pluginVars, contract>>

PersistSave ==
    /\ PersistencePlugin_save
    /\ UNCHANGED <<now, engineVars, matcher, calls, flushed, linkVars,
                   bloomFilter, snapshots, contract>>

PersistLoad ==
    /\ PersistencePlugin_load
    /\ UNCHANGED <<now, engineVars, matcher, calls, flushed, linkVars,
                   pluginVars, contract>>

PersistNext ==
    \/ PersistSet
    \/ PersistSave
    \/ PersistLoad
    \/ Tick

PersistSpec == Init /\ [][PersistNext]_vars

----------------------------------------------------------------------------
(* SimpleSnapDB: SET and EXPIRE with a ttl argument below 0 *)

(* set(): storage.set, then emit('set'); the ttl is not looked at *)
SimpleSnapDB_setResult(k, v, ttl) == Answer("NONE", <<>>)

SimpleSnapDB_setEmits(k, v, ttl) == TRUE

SimpleSnapDB_set(k, v, ttl) == SimpleStorage_set(k, v, ttl)

(* expire(): `if (ttl <= 0) throw new ValidationError(...)` comes first; *)
(* 'expire' is emitted when storage.expire returned true                  *)
SimpleSnapDB_expireResult(k, ttl) ==
    IF ttl <= 0 THEN Answer("VALIDATION_ERROR", <<>>)
    ELSE Answer("NONE", <<SimpleStorage_expireResult(k)>>)

SimpleSnapDB_expireEmits(k, ttl) == ttl > 0 /\ SimpleStorage_expireResult(k)

SimpleSnapDB_expire(k, ttl) ==
    IF ttl <= 0 THEN UNCHANGED simpleVars ELSE SimpleStorage_expire(k, ttl)

TtlSet ==
    \E k \in Keys, ttl \in {NoTtl, 1000} \cup NonPositiveTtls :
        /\ SimpleSnapDB_set(k, Str(<<"v", "1">>), ttl)
        /\ IF ttl \in NonPositiveTtls
           THEN UNCHANGED contract
           ELSE Contract_set(k, Str(<<"v", "1">>), ttl)
        /\ UNCHANGED <<now, engineVars, auxVars>>

TtlExpire ==
    \E k \in Keys, ttl \in {1000} \cup NonPositiveTtls :
        /\ SimpleSnapDB_expire(k, ttl)
        /\ IF ttl \in NonPositiveTtls
           THEN UNCHANGED contract
           ELSE Contract_expire(k, ttl)
        /\ UNCHANGED <<now, engineVars, auxVars>>

TtlGet ==
    \E k \in Keys :
        SimpleStorage_get(k) /\ UNCHANGED <<now, engineVars, auxVars, contract>>

TtlNext ==
    \/ TtlSet
    \/ TtlExpire
    \/ TtlGet
    \/ Tick

TtlSpec == Init /\ [][TtlNext]_vars

----------------------------------------------------------------------------
(* SnapDB and its worker as the repository starts them: `new Worker(path)` *)
(* posts nothing, and the worker constructs its WorkerThread on the first  *)
(* message only, so no message is ever in flight and the handlers of both  *)
(* sides never run.                                                        *)

CommandTypes == { "SET", "GET" }

LinkIssue ==
    \E command \in CommandTypes, k \in Keys :
        /\ ~client.closed
        /\ Len(client.requests) < MaxCommands
        /\ SnapDB_sendCommand(command, k)
        /\ UNCHANGED <<now, simpleVars, engineVars, pluginVars, matcher, calls, flushed, worker, contract>>

LinkCheckReady ==
    /\ SnapDB_checkReady
    /\ UNCHANGED <<now, simpleVars, engineVars, pluginVars, matcher, calls, flushed, worker, contract>>

(* the worker thread dies: worker.on('error') *)
LinkWorkerError ==
    /\ ~client.closed
    /\ worker.life \in {"loaded", "constructed"}
    /\ SnapDB_onError
    /\ worker' = [worker EXCEPT !.life = "crashed"]
    /\ UNCHANGED <<now, simpleVars, engineVars, pluginVars, matcher, calls, flushed, port, contract>>

LinkClose ==
    /\ ~client.closed
    /\ SnapDB_close
    /\ UNCHANGED <<now, simpleVars, engineVars, pluginVars, matcher, calls, flushed, contract>>

LinkNext ==
    \/ LinkIssue
    \/ LinkCheckReady
    \/ LinkWorkerError
    \/ LinkClose
    \/ Tick

LinkSpec == Init /\ [][LinkNext]_vars

(* every step that can be taken is taken in the end: timers fire and      *)
(* posted messages are delivered                                           *)
LinkLiveSpec == LinkSpec /\ WF_vars(LinkNext)

(* the client and the worker left to themselves: the client is not closed  *)
(* and the worker does not crash                                           *)
HandshakeNext ==
    \/ LinkIssue
    \/ LinkCheckReady
    \/ Tick

HandshakeSpec == Init /\ [][HandshakeNext]_vars /\ WF_vars(HandshakeNext)

----------------------------------------------------------------------------
(* SnapDB alone, facing a peer that speaks the protocol SnapDB expects: it *)
(* posts `{type: 'ready'}` once and answers a request with a message that  *)
(* carries the id of the request at its top level.                         *)

PeerReady ==
    /\ ~client.closed
    /\ worker.life = "loaded"
    /\ worker' = [worker EXCEPT !.life = "constructed"]
    /\ port' = [port EXCEPT !.toClient = Append(@, Message("ready", 0, "", <<>>, NoData))]
    /\ UNCHANGED <<now, simpleVars, engineVars, pluginVars, matcher, calls, flushed, client, contract>>

PeerAnswer ==
    /\ port.toWorker # <<>>
    /\ port' = [port EXCEPT
                  !.toWorker = Tail(@),
                  !.toClient = Append(@, Message("undefined", Head(port.toWorker).id,
                                                 "", <<>>, NoData))]
    /\ UNCHANGED <<now, simpleVars, engineVars, pluginVars, matcher, calls, flushed, client, worker,
                   contract>>

ClientOnMessage ==
    /\ SnapDB_onMessage
    /\ UNCHANGED <<now, simpleVars, engineVars, pluginVars, matcher, calls, flushed, worker, contract>>

ClientTimeout ==
    \E id \in client.pendingRequests :
        /\ SnapDB_onTimeout(id)
        /\ UNCHANGED <<now, simpleVars, engineVars, pluginVars, matcher, calls, flushed, port, worker,
                       contract>>

ClientNext ==
    \/ LinkIssue
    \/ LinkCheckReady
    \/ LinkWorkerError
    \/ LinkClose
    \/ PeerReady
    \/ PeerAnswer
    \/ ClientOnMessage
    \/ ClientTimeout

ClientSpec == Init /\ [][ClientNext]_vars

----------------------------------------------------------------------------
(* The worker thread alone, with the messages posted to its port: the      *)
(* first one is its config, the others are requests, in the envelope       *)
(* `{type: 'request', data}` or bare as SnapDB posts them.                 *)

WorkerPost ==
    \E type \in {"request", "undefined"}, command \in CommandTypes, k \in Keys :
        LET id == Len(port.sent) + 1
        IN  /\ id <= MaxCommands
            /\ port' = [port EXCEPT
                          !.toWorker = Append(@,
                              IF type = "request"
                              THEN Message(type, 0, "", <<>>, Data(id, "", command, k, ""))
                              ELSE Message(type, id, command, k, NoData)),
                          !.sent = Append(@, id)]
            /\ UNCHANGED <<now, simpleVars, engineVars, pluginVars, matcher, calls, flushed,
                           client, worker, contract>>

WorkerBoot ==
    /\ Worker_boot
    /\ UNCHANGED <<now, simpleVars, engineVars, pluginVars, matcher, calls, flushed, client, contract>>

WorkerOnMessage ==
    /\ Worker_onMessage
    /\ UNCHANGED <<now, simpleVars, pluginVars, matcher, calls, flushed, client>>

WorkerSendResponse ==
    /\ Worker_sendResponse
    /\ UNCHANGED <<now, simpleVars, engineVars, pluginVars, matcher, calls, flushed, client, contract>>

(* the interval timer of startPeriodicCompaction(), started by the         *)
(* constructor of WorkerThread                                             *)
WorkerCompaction ==
    /\ worker.life = "constructed"
    /\ MicrotasksDrained
    /\ PeriodicCompaction

WorkerNext ==
    \/ WorkerPost
    \/ WorkerBoot
    \/ WorkerOnMessage
    \/ WorkerSendResponse
    \/ WorkerCompaction
    \/ Tick

WorkerSpec == Init /\ [][WorkerNext]_vars

----------------------------------------------------------------------------
(* Properties of the command contract *)

(* C1: read-your-write.  Right after SET(k, v), with or without a ttl     *)
(* (every ttl argument is still unelapsed at that instant), GET(k)        *)
(* returns v, whatever commands came before.  Checked on SimpleStorage.   *)
C1_ReadYourWrite ==
    [][\A k \in Keys, v \in Values, ttl \in TtlArgs \cup {NoTtl} :
          SimpleStorage_set(k, v, ttl) /\ Contract_set(k, v, ttl)
              => SimpleStorage_getResult(k)' = v]_vars

(* C2: once DEL(k) was issued and until the next SET(k), GET(k) is absent *)
(* and EXISTS(k) is false in the engine, also when a run still holds an   *)
(* older value of k.                                                      *)
C2_DeletedStaysAbsent ==
    \A k \in Keys :
        Deleted(k) => /\ Absent(StorageEngine_getResult(k))
                      /\ ~StorageEngine_existsResult(k)

(* C3: DEL(k) returns true iff a live entry for k (set, not deleted, its  *)
(* ttl not elapsed) exists when it is called.  Checked on SimpleStorage.  *)
C3_DelReturnsLive ==
    \A k \in Keys : SimpleStorage_delResult(k) <=> Live(k)

(* C4: a key whose expiry time is <= now is not observable: GET (and so   *)
(* MGET) is absent, EXISTS false, TTL -2 and KEYS omits it, whether or    *)
(* not a purge has run.  Checked on SimpleStorage.                        *)
C4_ExpiredNotObservable ==
    \A k \in Keys :
        Elapsed(k) => /\ Absent(SimpleStorage_getResult(k))
                      /\ ~SimpleStorage_existsResult(k)
                      /\ SimpleStorage_ttlResult(k) = -2
                      /\ k \notin SimpleStorage_keysResult(<<>>)

(* C5: TTL(k) is -2 for an absent key (never set, deleted or expired), -1 *)
(* for a key without expiry, else ceil((expires_at - now) / 1000), in     *)
(* every reachable state.  Checked on StorageEngine.                      *)
C5_TtlAnswer ==
    \A k \in Keys : StorageEngine_ttlResult(k) = Contract_ttl(k)

(* C6: after a SET(k, v) without ttl, k has no expiry: TTL(k) is -1 and   *)
(* GET(k) keeps returning v as time passes, until the next write to k,    *)
(* whatever was applied to k before.  Checked on SimpleStorage.           *)
C6_SetWithoutTtlClearsExpiry ==
    \A k \in Keys :
        Live(k) /\ ~Pending(k) => /\ SimpleStorage_ttlResult(k) = -1
                                  /\ SimpleStorage_getResult(k) = contract[k].value

(* C7: EXPIRE(k, ttl) with ttl > 0 returns true iff a live entry for k    *)
(* exists; on a key that is absent, deleted or expired it changes no      *)
(* state and leaves the key unreadable.  Checked on SimpleStorage.        *)
C7_ExpireOnlyLive ==
    [][\A k \in Keys, ttl \in TtlArgs :
          SimpleStorage_expire(k, ttl) /\ Contract_expire(k, ttl)
              => /\ SimpleStorage_expireResult(k) <=> Live(k)
                 /\ ~Live(k) => /\ UNCHANGED simpleVars
                                /\ Absent(SimpleStorage_getResult(k)')]_vars

(* C8: TTL(k) is -2 or -1 for a key with no pending expiry and positive   *)
(* for a key with one; while the expiry stays pending and k is not        *)
(* written, TTL(k) never grows as time passes and is smaller after every  *)
(* full second (the answer is in whole seconds).  Checked on              *)
(* SimpleStorage.                                                         *)
C8_TtlSign ==
    \A k \in Keys :
        IF Pending(k) THEN SimpleStorage_ttlResult(k) > 0
        ELSE SimpleStorage_ttlResult(k) \in {-2, -1}

C8_TtlDecreases ==
    \A k \in Keys :
        Pending(k) /\ Pending(k)' /\ contract'[k] = contract[k] /\ now' > now
            => /\ SimpleStorage_ttlResult(k)' <= SimpleStorage_ttlResult(k)
               /\ now' - now >= 1000
                    => SimpleStorage_ttlResult(k)' < SimpleStorage_ttlResult(k)

C8_TtlPending == []C8_TtlSign /\ [][C8_TtlDecreases]_vars

(* C9: KEYS(pattern) of the engine is exactly the set of keys whose       *)
(* latest entry is live and whose key matches the pattern; a deleted or   *)
(* expired key is never listed, even when a run still holds a value.      *)
C9_KeysAreLiveMatches ==
    \A p \in Patterns : StorageEngine_keysResult(p) = Contract_keys(p)

(* C10: every KEYS implementation selects a key under a pattern exactly   *)
(* when the anchored glob does: * any sequence, ? exactly one character,  *)
(* any other character only itself.                                       *)
C10_AnchoredGlob ==
    matcher.selects # NotAsked =>
        \A w \in KeysImplementations :
            matcher.selects[w] = IF GlobMatches(matcher.pattern, matcher.key)
                                 THEN "yes" ELSE "no"

(* C11: in every reachable state INFO().totalEntries of the engine is the *)
(* number of distinct live keys, and so the length of KEYS() taken at the *)
(* same instant.                                                          *)
C11_TotalEntriesCountsLiveKeys ==
    /\ StorageEngine_infoTotalEntries = Cardinality(Contract_keys(<<>>))
    /\ StorageEngine_infoTotalEntries = Cardinality(StorageEngine_keysResult(<<>>))

(* C12: INCR/DECR through the worker return the current value of k read  *)
(* as an integer (0 when absent, expired or unparseable, 10 for "10")     *)
(* plus or minus 1, SimpleStorage reads the same number from the same     *)
(* value, and a GET after the command returns the number returned.        *)
C12_IncrAnswer ==
    \A k \in Keys, by \in {1, -1} :
        /\ Worker_incrResult(k, by) = Contract_incrResult(k, by)
        /\ Worker_numValue(StorageEngine_getResult(k))
              = SimpleStorage_numValue(StorageEngine_getResult(k))

C12_IncrIsRead ==
    \A k \in Keys, by \in {1, -1} :
        Worker_incr(k, by) /\ Contract_incr(k, by)
            => StorageEngine_getResult(k)' = Num(Worker_incrResult(k, by))

C12_IncrDecr == []C12_IncrAnswer /\ [][C12_IncrIsRead]_vars

(* C13: INCR and DECR are atomic: once every call started without         *)
(* awaiting has completed, the value of k is the initial one plus the     *)
(* number of INCR minus the number of DECR; no update is lost.            *)
C13_NoLostUpdate ==
    calls = <<>> =>
        \A k \in Keys :
            Live(k) => SimpleStorage_numValue(SimpleStorage_getResult(k))
                          = Contract_number(Contract_get(k))

(* C14: MGET(keys) through the worker returns, without error, a list as   *)
(* long as keys whose i-th element is what GET(keys[i]) returns.          *)
C14_MgetIsGetPerKey ==
    \A keys \in KeyLists :
        Worker_mgetResult(keys)
            = Answer("NONE", [i \in 1..Len(keys) |-> StorageEngine_getResult(keys[i])])

(* C15: after MSET(entries) through the worker-backed client every listed *)
(* key reads the value of its last element and carries that element's     *)
(* expiry, as after SET for each element in list order.                   *)
C15_MsetIsSetPerEntry ==
    [][\A entries \in EntryLists :
          Worker_mset(SnapDB_msetArgs(entries)) /\ Contract_mset(entries)
              => \A i \in 1..Len(entries) :
                    /\ StorageEngine_getResult(entries[i].key)' = Contract_get(entries[i].key)'
                    /\ StorageEngine_ttlResult(entries[i].key)' = Contract_ttl(entries[i].key)']_vars

(* C16: after FLUSHALL and until the next write, KEYS() is empty, every   *)
(* GET is absent, every TTL is -2, and the memtable, all runs, the WAL and *)
(* the compaction statistics are empty, also when a compaction had been    *)
(* scheduled before FLUSHALL and runs after it.  Checked on StorageEngine. *)
C16_FlushallEmpties ==
    flushed =>
        /\ StorageEngine_keysResult(<<>>) = {}
        /\ \A k \in Keys :
                /\ Absent(StorageEngine_getResult(k))
                /\ StorageEngine_ttlResult(k) = -2
        /\ Memtable_size(memtable) = 0
        /\ \A level \in 0..6 : sstables[level] = <<>>
        /\ wal = <<>>
        /\ compactionStats = <<>>

(* C17: SET or EXPIRE with a supplied ttl that is not positive fails     *)
(* with VALIDATION_ERROR and has no effect: the key's value and expiry are *)
(* unchanged and no event is emitted.  Checked on SimpleSnapDB; the worker *)
(* client answers a validation error for the same arguments.               *)
C17_SimpleRejects ==
    \A k \in Keys, ttl \in NonPositiveTtls :
        /\ SimpleSnapDB_set(k, Str(<<"v", "1">>), ttl)
              => /\ SimpleSnapDB_setResult(k, Str(<<"v", "1">>), ttl).error = "VALIDATION_ERROR"
                 /\ ~SimpleSnapDB_setEmits(k, Str(<<"v", "1">>), ttl)
                 /\ UNCHANGED simpleVars
        /\ (SimpleSnapDB_expire(k, ttl) /\ UNCHANGED <<now, engineVars, auxVars, contract>>)
              => /\ SimpleSnapDB_expireResult(k, ttl).error = "VALIDATION_ERROR"
                 /\ ~SimpleSnapDB_expireEmits(k, ttl)
                 /\ UNCHANGED simpleVars

C17_WorkerRejects ==
    \A k \in Keys, ttl \in NonPositiveTtls :
        /\ SnapDB_setResult(k, Str(<<"v", "1">>), ttl).error = "VALIDATION_ERROR"
        /\ SnapDB_expireResult(k, ttl).error = "VALIDATION_ERROR"

C17_NonPositiveTtlRejected == []C17_WorkerRejects /\ [][C17_SimpleRejects]_vars

(* C18: every command issued through the worker-backed client is        *)
(* answered: the worker posts a response carrying its id and the client    *)
(* settles the promise of the command; no command is silently dropped.     *)
C18_EveryCommandAnswered ==
    \A id \in 1..MaxCommands :
        (id \in DOMAIN client.requests)
            ~> /\ id \in DOMAIN client.requests
               /\ client.requests[id].settles = 1

(* C19: the worker runs the requests in the order they were posted and    *)
(* one at a time: at most one handler is under way, and the response of a  *)
(* request is posted before the handler of a later one starts, also when   *)
(* the earlier request flushed the memtable.                               *)
RequestIds(messages) ==
    [i \in 1..Len(messages) |-> messages[i].data.id]

C20_SettledOnce ==
    /\ \A id \in DOMAIN client.requests :
          /\ client.requests[id].settles <= 1
          /\ client.requests[id].state = "pending" <=> id \in client.pendingRequests
          /\ client.requests[id].state = "pending" => client.requests[id].settles = 0
    /\ client.closed =>
          /\ client.pendingRequests = {}
          /\ LiveTimers = {}
          /\ \A id \in DOMAIN client.requests : client.requests[id].settles = 1

(* C21: an event is published after the mutation it describes is         *)
(* committed: a GET issued from a listener of 'set' for the key of the     *)
(* event returns the value of the event, and a 'del' event carries the     *)
(* answer of its DEL.  Checked on SimpleSnapDB.                            *)
C21_EventAfterCommit ==
    [][(calls # <<>> /\ calls' = Tail(calls))
          => /\ Head(calls).command = "SET"
                   => SimpleStorage_getResult(Head(calls).key) = Head(calls).value
             /\ Head(calls).command = "DEL"
                   => /\ Head(calls).deleted => Absent(SimpleStorage_getResult(Head(calls).key))
                      /\ Head(calls).value = Null]_vars

(* C22: GET(k) answers with the value of the most recent SET(k), or with   *)
(* absent after a more recent DEL(k), whatever flushes and compactions     *)
(* happened in between.  Stated for the keys whose last write carries no   *)
(* ttl, so that no expiry is involved.                                     *)
C22_GetIsLatestWrite ==
    \A k \in Keys :
        /\ Deleted(k) => Absent(StorageEngine_getResult(k))
        /\ (Live(k) /\ ~Pending(k)) => StorageEngine_getResult(k) = contract[k].value

(* C23: a SET that flushes the memtable leaves the memtable without       *)
(* entries and with byte size 0, leaves the WAL empty, and appends one run *)
(* to level 0 that holds, sorted by key, the entries the memtable held     *)
(* that had not expired; every other run is as it was.  A SET that does    *)
(* not flush adds no run.                                                  *)
Unexpired(entry, t) == ~(entry.ttl # NoTtl /\ entry.ttl <= t)

C23_FlushMovesMemtable ==
    [][\A k \in Keys, v \in Values, ttl \in TtlArgs \cup {NoTtl} :
          StorageEngine_set(k, v, ttl) =>
              LET mem == Memtable_set(memtable, k, v, ttl, now)
                  held == { mem.data[x] : x \in { y \in DOMAIN mem.data :
                                                     Unexpired(mem.data[y], now) } }
              IN  IF Memtable_shouldFlush(mem)
                  THEN /\ memtable'.sizeBytes = 0
                       /\ Memtable_size(memtable') = 0
                       /\ wal' = <<>>
                       /\ Len(sstables'[0]) = Len(sstables[0]) + 1
                       /\ SubSeq(sstables'[0], 1, Len(sstables[0])) = sstables[0]
                       /\ \A level \in 1..6 : sstables'[level] = sstables[level]
                       /\ sstables'[0][Len(sstables'[0])].entries = SortByKey(held)
                  ELSE sstables' = sstables]_vars

(* C25: once the ttl of the newest write SET(k, v2, ttl) has elapsed,      *)
(* GET(k) is absent, also when a run holds an older value of k that has    *)
(* not expired, and whatever lazy removals, flushes and compactions        *)
(* happened since.                                                         *)
(* The instant now = expires_at of an entry of k is set aside: there the    *)
(* stores still answer with the entry.                                     *)
ExpiresNow(k) ==
    \/ MapHas(memtable.data, k) /\ memtable.data[k].ttl = now
    \/ \E level \in 0..6 : \E i \in 1..Len(sstables[level]) :
            \E j \in 1..Len(sstables[level][i].entries) :
                /\ sstables[level][i].entries[j].key = k
                /\ sstables[level][i].entries[j].ttl = now

C25_ExpiredShadowsOlder ==
    \A k \in Keys :
        (Elapsed(k) /\ ~ExpiresNow(k)) => Absent(StorageEngine_getResult(k))

(* C24: a merge whose output level is above the bottom level keeps the    *)
(* tombstone of a key whose newest entry among the merged tables is a      *)
(* tombstone.  Checked on the level-0 merge of CompactionEngine, whose     *)
(* output level is 1: the newest entry of k in level 0 is the one of the   *)
(* last table that holds k.                                                *)
NewestAtLevel0(k) ==
    LET holding == { i \in 1..Len(sstables[0]) :
                        \E j \in 1..Len(sstables[0][i].entries) :
                            sstables[0][i].entries[j].key = k }
        last == CHOOSE i \in holding : \A o \in holding : o <= i
    IN  CHOOSE e \in { sstables[0][last].entries[j] : j \in 1..Len(sstables[0][last].entries) } :
            e.key = k

HeldAtLevel0(k) ==
    \E i \in 1..Len(sstables[0]) : \E j \in 1..Len(sstables[0][i].entries) :
        sstables[0][i].entries[j].key = k

C24_TombstoneKept ==
    [][\A k \in Keys :
          ( /\ Len(sstables[0]) >= 2
            /\ sstables'[0] = <<>>
            /\ HeldAtLevel0(k)
            /\ NewestAtLevel0(k).value = Null )
          => \E i \in 1..Len(sstables'[1]) : \E j \in 1..Len(sstables'[1][i].entries) :
                /\ sstables'[1][i].entries[j].key = k
                /\ sstables'[1][i].entries[j].value = Null]_vars

(* C26: once a compaction has completed, two distinct runs of one level   *)
(* L >= 1 have disjoint ranges [min_key, max_key].  Checked on the tables  *)
(* CompactionEngine.compact returns, for the runs that hold an entry.      *)
C26_LevelsDisjoint ==
    compactionStats # <<>> =>
        \A level \in 1..6 : \A i, j \in 1..Len(sstables[level]) :
            (i # j /\ sstables[level][i].entries # <<>> /\ sstables[level][j].entries # <<>>)
                => ~SSTable_overlaps(sstables[level][i], sstables[level][j])

(* C27: every run, whether a flush or a merge of any level produced it,   *)
(* holds its entries in strictly ascending order of key, hence one entry   *)
(* per key at most.                                                        *)
C27_RunsSortedUnique ==
    \A level \in 0..6 : \A i \in 1..Len(sstables[level]) :
        \A j \in 1..(Len(sstables[level][i].entries) - 1) :
            CodeUnitLess(sstables[level][i].entries[j].key,
                         sstables[level][i].entries[j + 1].key)

(* C28: after a merge, the entry retained for a key is the one with the    *)
(* largest (created_at, version) among the entries of the merged tables    *)
(* for that key.  Checked on the level-0 merge of CompactionEngine.        *)
C28_MergeKeepsNewest ==
    [][(Len(sstables[0]) >= 2 /\ sstables'[0] = <<>>) =>
          LET out == sstables'[1][1].entries
              inputs == AllEntries(sstables[0])
          IN  \A j \in 1..Len(out) : \A x \in 1..Len(inputs) :
                  inputs[x].key = out[j].key =>
                      \/ inputs[x].timestamp < out[j].timestamp
                      \/ /\ inputs[x].timestamp = out[j].timestamp
                         /\ inputs[x].version <= out[j].version]_vars

C30_FailedStepKeepsRuns ==
    [][( /\ ~compactionInProgress
         /\ compactionInProgress'
         /\ compactMerges(sstables)
         /\ compactionStats' = compactionStats )
          => sstables' = sstables]_vars

(* C31: a write command that fails, at the memtable call or at the flush  *)
(* it triggers, leaves the WAL and the memtable as they were before the    *)
(* command.                                                                *)
C31_FailedWriteLeavesNoTrace ==
    [][( \/ \E op \in WriteOps : StorageEngine_writeThrows(op)
         \/ \E k \in Keys, v \in Values, ttl \in TtlArgs \cup {NoTtl} :
                StorageEngine_setFlushThrows(k, v, ttl) )
          => (wal' = wal /\ memtable' = memtable)]_vars

C33_VersionAboveFlushed ==
    [][\A k \in Keys :
          ( /\ \E v \in Values, ttl \in TtlArgs \cup {NoTtl} : StorageEngine_set(k, v, ttl)
            /\ MapHas(memtable'.data, k) )
          => \A i \in 1..Len(AllEntries(AllTables)) :
                 AllEntries(AllTables)[i].key = k
                    => memtable'.data[k].version > AllEntries(AllTables)[i].version]_vars

(* the sum of the sizes of the entries of a map *)
RECURSIVE SumOfSizes(_)
SumOfSizes(data) ==
    IF DOMAIN data = {} THEN 0
    ELSE LET k == CHOOSE x \in DOMAIN data : TRUE
         IN  calculateEntrySize(data[k]) + SumOfSizes(MapDelete(data, k))

(* C34: the tracked sizeBytes is the sum of the sizes of the entries in    *)
(* the map, is never negative, and is 0 exactly when the map is empty.     *)
C34_SizeIsSumOfEntries ==
    /\ memtable.sizeBytes >= 0
    /\ (memtable.sizeBytes = 0) <=> (memtable.data = EmptyMap)
    /\ (\A k \in DOMAIN memtable.data : Serializable(memtable.data[k].value))
          => memtable.sizeBytes = SumOfSizes(memtable.data)

C36_RunLookupComplete ==
    \A i \in 1..Len(AllTables) :
        \A j \in 1..Len(AllTables[i].entries) :
            LET entry == AllTables[i].entries[j]
            IN  ~EntryExpired(entry, now)
                   => SSTable_get(AllTables[i], entry.key, now) = entry.value

(* the number of tables at which compact() takes tables from a level *)
Threshold(level) == IF level = 0 THEN 4 ELSE Pow10(level)

(* C37: while level 0 holds four tables or more a compaction is scheduled, *)
(* and it runs: level 0 is brought below four tables; the levels 1..5 are  *)
(* below their thresholds whenever a callback or a command has finished;   *)
(* and every table is at the level it is kept under, none above 6.         *)
C37_CompactionCatchesUp ==
    /\ [](Len(sstables[0]) >= Threshold(0) => scheduled > 0)
    /\ (Len(sstables[0]) >= Threshold(0)) ~> (Len(sstables[0]) < Threshold(0))
    /\ [](\A level \in 1..5 : Len(sstables[level]) < Threshold(level))
    /\ [](\A level \in DOMAIN sstables :
             /\ level \in 0..6
             /\ \A i \in 1..Len(sstables[level]) : sstables[level][i].level = level)

(* the compaction scheduled by the fourth flush merged level 0 into a      *)
(* tenth table of level 1 and the ten tables of level 1 into level 2       *)
C37_Witness ==
    /\ Len(compactionStats) = 2
    /\ Len(sstables[0]) < Threshold(0)
    /\ sstables[1] = <<>>
    /\ Len(sstables[2]) = 1
    /\ scheduled = 0

(* C38: the start-up handshake completes: the worker gets constructed     *)
(* with its configuration and the client sees it ready, so that isReady is *)
(* set and readyPromise resolves.                                          *)
C38_HandshakeCompletes ==
    <>( /\ worker.life = "constructed"
        /\ client.isReady
        /\ client.readyResolved )

(* C39: restoreSnapshot(name) leaves the store answering GET for every    *)
(* key, at the time of the restore, as it did when the snapshot was taken, *)
(* whatever was set, deleted or flushed since, and the keys that had no    *)
(* expiry then have none.                                                  *)
C39_SnapshotRoundTrip ==
    [][\A name \in SnapshotNames :
          (SnapshotPlugin_restoreSnapshot(name) /\ now' = now)
             => \A k \in Keys :
                   /\ SimpleStorage_getResult(k)' = snapshots[name].live[k]
                   /\ k \in snapshots[name].noExpiry => ~MapHas(sTtl', k)]_vars

(* a restored store: one key of the snapshot has an expiry and one has     *)
(* none, and both were written by the restore after the snapshot was taken *)
C39_Witness ==
    /\ MapHas(snapshots, "backup1")
    /\ snapshots["backup1"].restored
    /\ snapshots["backup1"].noExpiry # {}
    /\ \E k \in Keys : snapshots["backup1"].live[k] # Null /\ k \notin snapshots["backup1"].noExpiry
    /\ \A k \in Keys :
          /\ SimpleStorage_getResult(k) = snapshots["backup1"].live[k]
          /\ MapHas(sData, k) => sData[k].timestamp > snapshots["backup1"].timestamp

(* C40: a load before the expiry of a key saved with a ttl restores the   *)
(* key with an expiry within one second of the expiry it had, and a key    *)
(* saved without ttl is restored without one.                              *)
C40_LoadKeepsExpiry ==
    [][(PersistencePlugin_load /\ now' = now)
          => \A k \in DOMAIN file.entries :
                IF k \in DOMAIN file.expiry
                THEN now < file.expiry[k]
                        => /\ MapHas(sData', k)
                           /\ MapHas(sTtl', k)
                           /\ sTtl'[k] >= file.expiry[k] - 1000
                           /\ sTtl'[k] <= file.expiry[k] + 1000
                ELSE MapHas(sData', k) /\ ~MapHas(sTtl', k)]_vars

====
